---- MODULE Spec2Model ----
(***************************************************************************)
(* Model of the k8sbuilder field builders: the merge-policy resolution     *)
(* (IsOverwrite / IsOverwriteIfDefaultValue / IsMerge), the container      *)
(* builder, the pod template builder and the ingress setters.              *)
(*                                                                         *)
(* Go values are modelled as follows.                                      *)
(*   - a pointer, a slice or a map is Nil (<<>>) or a one-element tuple    *)
(*     <<v>> holding the pointee, the element sequence or the key/value    *)
(*     function: a nil slice (Nil) differs from an empty one (<< <<>> >>); *)
(*   - a string is a string, "" being the zero value;                      *)
(*   - a map[string]string is a function Keys -> Values \cup {Absent};     *)
(*   - slice indexes are 1-based, and 0 stands for funk.IndexOf's -1.      *)
(* A call that panics leaves res = "panic" and the builder is not used     *)
(* afterwards.                                                             *)
(***************************************************************************)
EXTENDS Integers, Sequences, FiniteSets, TLC

VARIABLES opts, resolved, container, podTemplate, i, last, calls, held, operations, built,
          dstAny

vars ==
  <<opts, resolved, container, podTemplate, i, last, calls, held, operations, built, dstAny>>

\* ---------------------------------------------------------------- bounds
MaxOpts == 3
MaxLen == 2
MaxCalls == 2
MaxBuilds == 2

\* ------------------------------------------------------------ Go values
Nil == <<>>

Ref(v) == <<v>>

Val(p) == p[1]

SeqsUpTo(S, n) == UNION {[1..k -> S] : k \in 0..n}

\* the slices a caller can pass: nil, or a slice of at most MaxLen entries
Slices(S) == {Nil} \cup {Ref(s) : s \in SeqsUpTo(S, MaxLen)}

\* make([]T, len(x)); copy(tmp, x): a fresh non-nil slice, also for a nil x
CopySlice(x) == IF x = Nil THEN Ref(<<>>) ELSE Ref(Val(x))

\* var tmp []T; if x != nil { tmp = make(...); copy(tmp, x) }
CopySliceOrNil(x) == IF x = Nil THEN Nil ELSE Ref(Val(x))

\* funk.IndexOf with a predicate, given the set of matching indexes
FirstOf(S) == IF S = {} THEN 0 ELSE CHOOSE k \in S : \A j \in S : k <= j

\* ------------------------------------------------------- merge policies
Overwrite == "overwrite"

OverwriteIfDefaultValue == "overwriteIfDefaultValue"

Merge == "merge"

\* WithOption is a string type: a caller can pass any string
WithOption == {Overwrite, OverwriteIfDefaultValue, Merge, "replace"}

IsOverwrite(o) == Len(o) = 0 \/ o[1] = Overwrite

IsOverwriteIfDefaultValue(o) == Len(o) > 0 /\ o[1] = OverwriteIfDefaultValue

\* IsMerge reading every token of the list
IsMergeAnyToken(o) == \E k \in 1..Len(o) : o[k] = Merge

IsMerge(o) == Len(o) > 0 /\ o[1] = Merge

OptLists == SeqsUpTo(WithOption, MaxOpts)

\* the option lists the builder specifications pass to the setters
SetterOpts == {<<>>, <<Overwrite>>, <<OverwriteIfDefaultValue>>, <<Merge>>, <<"replace">>}

\* -------------------------------------------------- policy resolution
\* A setter evaluates the three predicates on its opts.
NoResolution == [done |-> FALSE, overwrite |-> FALSE, ifDefault |-> FALSE, merge |-> FALSE]

Resolution(o) ==
  [done |-> TRUE, overwrite |-> IsOverwrite(o),
   ifDefault |-> IsOverwriteIfDefaultValue(o), merge |-> IsMerge(o)]

\* ------------------------------------------------------ container values
Images == {"", "nginx", "busybox"}

PullPolicies == {"", "Always", "Never"}

\* corev1.ContainerPort: containerPort is the identity, name is omitempty
ContainerPorts ==
  {[ContainerPort |-> 80, Name |-> ""], [ContainerPort |-> 80, Name |-> "http"],
   [ContainerPort |-> 443, Name |-> ""], [ContainerPort |-> 8080, Name |-> ""]}

\* corev1.VolumeMount: mountPath + subPath are the identity
VolumeMounts ==
  {[Name |-> "v1", MountPath |-> "/a", SubPath |-> ""],
   [Name |-> "v2", MountPath |-> "/a", SubPath |-> ""],
   [Name |-> "v1", MountPath |-> "/a", SubPath |-> "s"]}

\* corev1.EnvVar
EnvVars == {[Name |-> "E", Value |-> "1"], [Name |-> "E", Value |-> "2"]}

\* corev1.EnvFromSource, by the name of its config map
EnvFromSources == [ConfigMapRef : {"c1", "c2"}]

\* corev1.SecurityContext: two of its pointer fields
SecurityContexts == [RunAsUser : {Nil, Ref(1000)}, RunAsNonRoot : {Nil, Ref(TRUE)}]

ZeroSecurityContext == [RunAsUser |-> Nil, RunAsNonRoot |-> Nil]

\* corev1.Probe: two of its omitempty int32 fields (0 is the unset value)
Probes == [InitialDelaySeconds : {0, 5}, PeriodSeconds : {0, 10}]

ZeroProbe == [InitialDelaySeconds |-> 0, PeriodSeconds |-> 0]

\* corev1.ResourceRequirements: the cpu quantity of Limits and of Requests
\* ("" when the resource list is nil or empty)
ResourceRequirements == [Limits : {"", "1"}, Requests : {"", "1"}]

ZeroResources == [Limits |-> "", Requests |-> ""]

\* &corev1.Container{}
ZeroContainer ==
  [Name |-> "", Image |-> "", ImagePullPolicy |-> "", Ports |-> Nil,
   VolumeMounts |-> Nil, Env |-> Nil, EnvFrom |-> Nil, SecurityContext |-> Nil,
   Resources |-> ZeroResources, LivenessProbe |-> Nil, ReadinessProbe |-> Nil,
   StartupProbe |-> Nil]

\* reflect.ValueOf(h.container).Elem().IsZero()
ContainerIsZero(c) == c = ZeroContainer

\* the outcome of a setter: the target afterwards, and "ok" or "panic"
Ok(t) == [res |-> "ok", t |-> t]

Panic(t) == [res |-> "panic", t |-> t]

\* --------------------------------------------------------------- MergeK8s
\* the round trip keeping nothing of dst
PatchFieldNewOnly(d, n, zero) == n

\* The JSON round trip of MergeK8s on one field: the two-way patch from dst to
\* new deletes what new omits, and json.Unmarshal into the existing dst leaves
\* a field that is absent from the patched document as it was.
PatchField(d, n, zero) == IF n = zero THEN d ELSE n

PatchSecurityContext(d, n) ==
  [RunAsUser |-> PatchField(d.RunAsUser, n.RunAsUser, Nil),
   RunAsNonRoot |-> PatchField(d.RunAsNonRoot, n.RunAsNonRoot, Nil)]

PatchProbe(d, n) ==
  [InitialDelaySeconds |-> PatchField(d.InitialDelaySeconds, n.InitialDelaySeconds, 0),
   PeriodSeconds |-> PatchField(d.PeriodSeconds, n.PeriodSeconds, 0)]

PatchResources(d, n) ==
  [Limits |-> PatchField(d.Limits, n.Limits, ""),
   Requests |-> PatchField(d.Requests, n.Requests, "")]

\* the round trip on a value of the named Go type (defined with the types below)
RECURSIVE Patch(_, _, _)

\* a pointer field: absent when nil, decoded into the existing pointee otherwise
PatchPtr(d, n, zero, type) ==
  IF n = Nil THEN d
  ELSE IF d = Nil THEN Ref(Patch(type, zero, Val(n)))
  ELSE Ref(Patch(type, Val(d), Val(n)))

\* MergeK8s(dst, src, new): dst is [kind, val] with kind "ptr" (*T), "ptrptr"
\* (**T), "value" (not a pointer) or "nil"; src and new are Nil or <<v>>.
\* type names the Go type dst points to, which the patch functions reflect on.
\* The result is "ok", "error" or "panic" and the value dst points to.
MergeK8s(dst, src, new, type) ==
  IF dst.kind = "value" THEN [res |-> "error", val |-> dst.val]
  ELSE IF src = Nil THEN [res |-> "error", val |-> dst.val]
  ELSE IF dst.kind = "nil" THEN [res |-> "panic", val |-> dst.val]
  ELSE IF new = Nil
    THEN IF dst.kind = "ptrptr"
         THEN [res |-> "panic", val |-> dst.val]
         ELSE [res |-> "ok", val |-> Val(src)]
  ELSE [res |-> "ok", val |-> Patch(type, dst.val, Val(new))]

\* ------------------------------------------------------ container builder
\* reflect.ValueOf(x).Elem() panics unless x is a pointer or an interface: on a
\* slice, a map or a struct the "overwrite only if not default" test panics.
ElemPanics(kind) == kind \in {"slice", "map", "struct"}

\* WithImage without its guard on the policy
WithImageUnguarded(c, image, o) == Ok([c EXCEPT !.Image = image])

WithImage(c, image, o) ==
  IF IsOverwrite(o) \/ IsMerge(o) \/ c.Image = ""
  THEN Ok([c EXCEPT !.Image = image])
  ELSE Ok(c)

WithImagePullPolicy(c, pullPolicy, o) ==
  IF IsOverwrite(o) \/ IsMerge(o) \/ c.ImagePullPolicy = ""
  THEN Ok([c EXCEPT !.ImagePullPolicy = pullPolicy])
  ELSE Ok(c)

\* a membership test that looks at the first entry only
ContainsFirst(list, e) == list # <<>> /\ list[1] = e

\* funk.Contains(list, elem) on a slice of plain values
Contains(list, e) == \E k \in 1..Len(list) : list[k] = e

\* the merge loop of WithEnv, WithEnvFrom and WithTolerations
RECURSIVE MergePlain(_, _)
MergePlain(dst, new) ==
  IF new = <<>> THEN dst
  ELSE MergePlain(IF Contains(dst, Head(new)) THEN dst ELSE Append(dst, Head(new)),
                  Tail(new))

WithEnvFrom(c, envFroms, o) ==
  LET tmpEnvFrom == CopySlice(envFroms) IN
  IF IsOverwrite(o) \/ c.EnvFrom = Nil THEN Ok([c EXCEPT !.EnvFrom = tmpEnvFrom])
  ELSE IF IsOverwriteIfDefaultValue(o) /\ ElemPanics("slice") THEN Panic(c)
  ELSE IF IsMerge(o)
    THEN Ok([c EXCEPT !.EnvFrom = Ref(MergePlain(Val(c.EnvFrom), Val(tmpEnvFrom)))])
  ELSE Ok(c)

WithEnv(c, envs, o) ==
  LET tmpEnvs == CopySlice(envs) IN
  IF IsOverwrite(o) \/ c.Env = Nil THEN Ok([c EXCEPT !.Env = tmpEnvs])
  ELSE IF IsOverwriteIfDefaultValue(o) /\ ElemPanics("slice") THEN Panic(c)
  ELSE IF IsMerge(o)
    THEN Ok([c EXCEPT !.Env = Ref(MergePlain(Val(c.Env), Val(tmpEnvs)))])
  ELSE Ok(c)

PortIndexOf(list, port) ==
  FirstOf({k \in 1..Len(list) : port.ContainerPort = list[k].ContainerPort})

RECURSIVE MergePorts(_, _)
MergePorts(dst, new) ==
  IF new = <<>> THEN dst
  ELSE LET port == Head(new)
           index == PortIndexOf(dst, port)
       IN MergePorts(IF index = 0 THEN Append(dst, port)
                     ELSE [dst EXCEPT ![index] = port],
                     Tail(new))

WithPort(c, ports, o) ==
  LET tmpPorts == CopySlice(ports) IN
  IF IsOverwrite(o) \/ c.Ports = Nil THEN Ok([c EXCEPT !.Ports = tmpPorts])
  ELSE IF IsOverwriteIfDefaultValue(o) /\ ElemPanics("slice") THEN Panic(c)
  ELSE IF IsMerge(o)
    THEN Ok([c EXCEPT !.Ports = Ref(MergePorts(Val(c.Ports), Val(tmpPorts)))])
  ELSE Ok(c)

VolumeMountIndexOf(list, volumeMount) ==
  FirstOf({k \in 1..Len(list) : /\ volumeMount.MountPath = list[k].MountPath
                                /\ volumeMount.SubPath = list[k].SubPath})

RECURSIVE MergeVolumeMounts(_, _)
MergeVolumeMounts(dst, new) ==
  IF new = <<>> THEN dst
  ELSE LET volumeMount == Head(new)
           index == VolumeMountIndexOf(dst, volumeMount)
       IN MergeVolumeMounts(IF index = 0 THEN Append(dst, volumeMount)
                            ELSE [dst EXCEPT ![index] = volumeMount],
                            Tail(new))

WithVolumeMount(c, volumeMounts, o) ==
  LET tmpVolumeMount == CopySlice(volumeMounts) IN
  IF IsOverwrite(o) \/ c.VolumeMounts = Nil
    THEN Ok([c EXCEPT !.VolumeMounts = tmpVolumeMount])
  ELSE IF IsOverwriteIfDefaultValue(o) /\ ElemPanics("slice") THEN Panic(c)
  ELSE IF IsMerge(o)
    THEN Ok([c EXCEPT !.VolumeMounts =
                 Ref(MergeVolumeMounts(Val(c.VolumeMounts), Val(tmpVolumeMount)))])
  ELSE Ok(c)

\* resources is Nil or <<r>>; h.container.Resources is a struct, tested with
\* reflect.ValueOf(...).IsZero() (no Elem)
WithResource(c, resources, o) ==
  IF resources = Nil THEN Ok(c)
  ELSE IF IsOverwrite(o) THEN Ok([c EXCEPT !.Resources = Val(resources)])
  ELSE IF IsOverwriteIfDefaultValue(o) /\ c.Resources = ZeroResources
    THEN Ok([c EXCEPT !.Resources = Val(resources)])
  ELSE IF IsMerge(o)
    THEN LET m == MergeK8s([kind |-> "ptr", val |-> c.Resources], Ref(c.Resources),
                           resources, "Resources")
         IN IF m.res = "ok" THEN Ok([c EXCEPT !.Resources = m.val]) ELSE Panic(c)
  ELSE Ok(c)

WithSecurityContext(c, sc, o) ==
  IF IsOverwrite(o) \/ c.SecurityContext = Nil THEN Ok([c EXCEPT !.SecurityContext = sc])
  ELSE IF IsOverwriteIfDefaultValue(o) /\ Val(c.SecurityContext) = ZeroSecurityContext
    THEN Ok([c EXCEPT !.SecurityContext = sc])
  ELSE IF IsMerge(o)
    THEN LET m == MergeK8s([kind |-> "ptr", val |-> Val(c.SecurityContext)],
                           c.SecurityContext, sc, "SecurityContext")
         IN IF m.res = "ok" THEN Ok([c EXCEPT !.SecurityContext = Ref(m.val)])
            ELSE Panic(c)
  ELSE Ok(c)

\* the three probe setters differ only in the field: cur is its value
WithProbe(cur, probe, o) ==
  IF IsOverwrite(o) \/ cur = Nil THEN [res |-> "ok", val |-> probe]
  ELSE IF IsOverwriteIfDefaultValue(o) /\ Val(cur) = ZeroProbe
    THEN [res |-> "ok", val |-> probe]
  ELSE IF IsMerge(o)
    THEN LET m == MergeK8s([kind |-> "ptrptr", val |-> Val(cur)], cur, probe, "Probe")
         IN IF m.res = "ok" THEN [res |-> "ok", val |-> Ref(m.val)]
            ELSE [res |-> "panic", val |-> cur]
  ELSE [res |-> "ok", val |-> cur]

WithLivenessProbe(c, probe, o) ==
  LET r == WithProbe(c.LivenessProbe, probe, o)
  IN [res |-> r.res, t |-> [c EXCEPT !.LivenessProbe = r.val]]

WithReadinessProbe(c, probe, o) ==
  LET r == WithProbe(c.ReadinessProbe, probe, o)
  IN [res |-> r.res, t |-> [c EXCEPT !.ReadinessProbe = r.val]]

WithStartupProbe(c, probe, o) ==
  LET r == WithProbe(c.StartupProbe, probe, o)
  IN [res |-> r.res, t |-> [c EXCEPT !.StartupProbe = r.val]]

\* a list field in the JSON round trip of MergeK8s: omitted when empty. Every
\* list field patched here is set again by the setter chain that follows.
PatchList(d, n) == IF n = Nil \/ n = Ref(<<>>) THEN d ELSE n

\* MergeK8s on a corev1.Container: name has no omitempty and is always patched
PatchContainer(d, n) ==
  [Name |-> n.Name,
   Image |-> PatchField(d.Image, n.Image, ""),
   ImagePullPolicy |-> PatchField(d.ImagePullPolicy, n.ImagePullPolicy, ""),
   Ports |-> PatchList(d.Ports, n.Ports),
   VolumeMounts |-> PatchList(d.VolumeMounts, n.VolumeMounts),
   Env |-> PatchList(d.Env, n.Env),
   EnvFrom |-> PatchList(d.EnvFrom, n.EnvFrom),
   SecurityContext |-> PatchPtr(d.SecurityContext, n.SecurityContext,
                                ZeroSecurityContext, "SecurityContext"),
   Resources |-> PatchResources(d.Resources, n.Resources),
   LivenessProbe |-> PatchPtr(d.LivenessProbe, n.LivenessProbe, ZeroProbe, "Probe"),
   ReadinessProbe |-> PatchPtr(d.ReadinessProbe, n.ReadinessProbe, ZeroProbe, "Probe"),
   StartupProbe |-> PatchPtr(d.StartupProbe, n.StartupProbe, ZeroProbe, "Probe")]

\* h.WithEnv(org.Env).WithEnv(new.Env, Merge). ... .WithVolumeMount(new.VolumeMounts, Merge)
ContainerListChain(c, org, new) ==
  LET c1 == WithEnv(c, org.Env, <<>>).t
      c2 == WithEnv(c1, new.Env, <<Merge>>).t
      c3 == WithEnvFrom(c2, org.EnvFrom, <<>>).t
      c4 == WithEnvFrom(c3, new.EnvFrom, <<Merge>>).t
      c5 == WithPort(c4, org.Ports, <<>>).t
      c6 == WithPort(c5, new.Ports, <<Merge>>).t
      c7 == WithVolumeMount(c6, org.VolumeMounts, <<>>).t
  IN WithVolumeMount(c7, new.VolumeMounts, <<Merge>>).t

\* WithContainer(container, opts): new is the container passed, Nil or <<v>>
WithContainer(c, new, o) ==
  IF new = Nil THEN Ok(c)
  ELSE IF IsOverwrite(o) THEN Ok(Val(new))
  ELSE IF IsOverwriteIfDefaultValue(o) /\ ContainerIsZero(c) THEN Ok(Val(new))
  ELSE IF IsMerge(o)
    THEN LET orgContainer == c
             m == MergeK8s([kind |-> "ptr", val |-> c], Ref(c), new, "Container")
         IN IF m.res = "ok"
            THEN Ok(ContainerListChain(m.val, orgContainer, Val(new)))
            ELSE Panic(c)
  ELSE Ok(c)

\* the containers a caller passes whole
Containers ==
  {[ZeroContainer EXCEPT !.Name = n, !.Image = img, !.Ports = p] :
     n \in {"a", "b"}, img \in {"", "nginx"},
     p \in {Nil, Ref(<<[ContainerPort |-> 80, Name |-> "http"]>>)}}
  \cup {ZeroContainer,
        [ZeroContainer EXCEPT !.Name = "a", !.Env = Ref(<<[Name |-> "E", Value |-> "1"]>>),
           !.SecurityContext = Ref([RunAsUser |-> Ref(1000), RunAsNonRoot |-> Nil])]}

\* ------------------------------------------------- pod template values
Absent == "<absent>"

Keys == {"x", "y"}

\* a map[string]string: the value of each key, or Absent
Map(x, y) == [k \in Keys |-> IF k = "x" THEN x ELSE y]

EmptyMap == Map(Absent, Absent)

\* corev1.LocalObjectReference
LocalObjectReferences == [Name : {"s1", "s2"}]

\* corev1.Toleration
Tolerations == [Key : {"k1", "k2"}, Operator : {"Exists"}]

\* corev1.Volume: name is the identity, with two of the volume sources
\* (EmptyDir points to its medium, ConfigMap to the name of the config map)
Volumes ==
  {[Name |-> "v1", EmptyDir |-> Ref(""), ConfigMap |-> Nil],
   [Name |-> "v1", EmptyDir |-> Nil, ConfigMap |-> Ref("cm")],
   [Name |-> "v2", EmptyDir |-> Ref("Memory"), ConfigMap |-> Nil]}

\* corev1.Affinity: two of its pointer fields, the pointee as one scalar
Affinities == [NodeAffinity : {Nil, Ref("n1")}, PodAntiAffinity : {Nil, Ref("p1")}]

ZeroAffinity == [NodeAffinity |-> Nil, PodAntiAffinity |-> Nil]

\* corev1.PodSecurityContext: two of its pointer fields
PodSecurityContexts == [RunAsUser : {Nil, Ref(1000)}, FSGroup : {Nil, Ref(2000)}]

ZeroPodSecurityContext == [RunAsUser |-> Nil, FSGroup |-> Nil]

\* &corev1.PodTemplateSpec{}: the metadata and spec fields the builder sets
ZeroPodTemplate ==
  [Labels |-> Nil, Annotations |-> Nil, ImagePullSecrets |-> Nil,
   TerminationGracePeriodSeconds |-> Nil, Tolerations |-> Nil, NodeSelector |-> Nil,
   InitContainers |-> Nil, Containers |-> Nil, Volumes |-> Nil, Affinity |-> Nil,
   SecurityContext |-> Nil]

\* reflect.ValueOf(h.podTemplate).Elem().IsZero()
PodTemplateIsZero(p) == p = ZeroPodTemplate

\* the elements of a slice, none for a nil slice
SeqOf(x) == IF x = Nil THEN <<>> ELSE Val(x)

\* --------------------------------------------------- pod template builder
\* mergo.Merge(&dst, src) on two non-nil maps, without mergo.WithOverride: a
\* key of src is set on dst when dst lacks it or holds the empty string
MergoMerge(d, n) ==
  [k \in Keys |-> IF n[k] # Absent /\ d[k] \in {Absent, ""} THEN n[k] ELSE d[k]]

\* WithMap assigning a nil field under Overwrite only
WithMapNilKept(cur, new, o) ==
  IF IsOverwrite(o) THEN [res |-> "ok", val |-> new]
  ELSE IF cur = Nil THEN [res |-> "ok", val |-> cur]
  ELSE IF IsMerge(o) /\ new # Nil
    THEN [res |-> "ok", val |-> Ref(MergoMerge(Val(cur), Val(new)))]
  ELSE [res |-> "ok", val |-> cur]

\* WithLabels, WithAnnotations and WithNodeSelector on the field's value cur
WithMap(cur, new, o) ==
  IF IsOverwrite(o) \/ cur = Nil THEN [res |-> "ok", val |-> new]
  ELSE IF IsOverwriteIfDefaultValue(o) /\ ElemPanics("map") THEN [res |-> "panic", val |-> cur]
  ELSE IF IsMerge(o) /\ new # Nil
    THEN [res |-> "ok", val |-> Ref(MergoMerge(Val(cur), Val(new)))]
  ELSE [res |-> "ok", val |-> cur]

WithLabels(p, labels, o) ==
  LET r == WithMap(p.Labels, labels, o)
  IN [res |-> r.res, t |-> [p EXCEPT !.Labels = r.val]]

WithAnnotations(p, annotations, o) ==
  LET r == WithMap(p.Annotations, annotations, o)
  IN [res |-> r.res, t |-> [p EXCEPT !.Annotations = r.val]]

WithNodeSelector(p, nodeSelector, o) ==
  LET r == WithMap(p.NodeSelector, nodeSelector, o)
  IN [res |-> r.res, t |-> [p EXCEPT !.NodeSelector = r.val]]

\* funk.Contains(list, func(o) bool { return ref.Name == o.Name })
ContainsName(list, ref) == \E k \in 1..Len(list) : ref.Name = list[k].Name

RECURSIVE MergeImagePullSecrets(_, _)
MergeImagePullSecrets(dst, new) ==
  IF new = <<>> THEN dst
  ELSE MergeImagePullSecrets(IF ContainsName(dst, Head(new)) THEN dst
                             ELSE Append(dst, Head(new)),
                             Tail(new))

\* "tmpIps := make(...)" inside the if declares a second tmpIps: the copy is
\* dropped and the outer tmpIps stays nil whatever ips is
WithImagePullSecrets(p, ips, o) ==
  LET tmpIps == Nil IN
  IF IsOverwrite(o) \/ p.ImagePullSecrets = Nil
    THEN Ok([p EXCEPT !.ImagePullSecrets = tmpIps])
  ELSE IF IsOverwriteIfDefaultValue(o) /\ ElemPanics("slice") THEN Panic(p)
  ELSE IF IsMerge(o)
    THEN Ok([p EXCEPT !.ImagePullSecrets =
                 Ref(MergeImagePullSecrets(Val(p.ImagePullSecrets), SeqOf(tmpIps)))])
  ELSE Ok(p)

WithTerminationGracePeriodSeconds(p, nb, o) ==
  IF IsOverwrite(o) \/ IsMerge(o) \/ p.TerminationGracePeriodSeconds = Nil
  THEN Ok([p EXCEPT !.TerminationGracePeriodSeconds = Ref(nb)])
  ELSE Ok(p)

WithTolerations(p, tolerations, o) ==
  LET tmpTolerations == CopySliceOrNil(tolerations) IN
  IF IsOverwrite(o) \/ p.Tolerations = Nil THEN Ok([p EXCEPT !.Tolerations = tmpTolerations])
  ELSE IF IsOverwriteIfDefaultValue(o) /\ ElemPanics("slice") THEN Panic(p)
  ELSE IF IsMerge(o)
    THEN Ok([p EXCEPT !.Tolerations =
                 Ref(MergePlain(Val(p.Tolerations), SeqOf(tmpTolerations)))])
  ELSE Ok(p)

ContainerIndexOf(list, c) == FirstOf({k \in 1..Len(list) : c.Name = list[k].Name})

\* *NewContainerBuilder().WithContainer(&slot).WithContainer(&container, Merge).Container()
MergedContainer(slot, c) ==
  WithContainer(WithContainer(ZeroContainer, Ref(slot), <<>>).t, Ref(c), <<Merge>>).t

RECURSIVE MergeInitContainers(_, _)
MergeInitContainers(dst, new) ==
  IF new = <<>> THEN dst
  ELSE LET c == Head(new)
           index == ContainerIndexOf(dst, c)
       IN MergeInitContainers(IF index = 0 THEN Append(dst, c)
                              ELSE [dst EXCEPT ![index] = MergedContainer(dst[index], c)],
                              Tail(new))

WithInitContainers(p, containers, o) ==
  LET tmpContainers == CopySliceOrNil(containers) IN
  IF IsOverwrite(o) \/ p.InitContainers = Nil
    THEN Ok([p EXCEPT !.InitContainers = tmpContainers])
  ELSE IF IsOverwriteIfDefaultValue(o) /\ ElemPanics("slice") THEN Panic(p)
  ELSE IF IsMerge(o)
    THEN Ok([p EXCEPT !.InitContainers =
                 Ref(MergeInitContainers(Val(p.InitContainers), SeqOf(tmpContainers)))])
  ELSE Ok(p)

\* the merge loop of WithContainers: the index is looked up in InitContainers
\* (init) and used on Containers (dst); beyond the end of dst the assignment
\* panics with what the loop did so far in place
RECURSIVE MergeContainers(_, _, _)
MergeContainers(dst, init, new) ==
  IF new = <<>> THEN [res |-> "ok", val |-> dst]
  ELSE LET c == Head(new)
           index == ContainerIndexOf(init, c)
       IN IF index = 0 THEN MergeContainers(Append(dst, c), init, Tail(new))
          ELSE IF index > Len(dst) THEN [res |-> "panic", val |-> dst]
          ELSE MergeContainers([dst EXCEPT ![index] = MergedContainer(dst[index], c)],
                               init, Tail(new))

WithContainers(p, containers, o) ==
  LET tmpContainers == CopySliceOrNil(containers) IN
  IF IsOverwrite(o) \/ p.Containers = Nil THEN Ok([p EXCEPT !.Containers = tmpContainers])
  ELSE IF IsOverwriteIfDefaultValue(o) /\ ElemPanics("slice") THEN Panic(p)
  ELSE IF IsMerge(o)
    THEN LET m == MergeContainers(Val(p.Containers), SeqOf(p.InitContainers),
                                  SeqOf(tmpContainers))
         IN [res |-> m.res, t |-> [p EXCEPT !.Containers = Ref(m.val)]]
  ELSE Ok(p)

\* MergeK8s on a corev1.Volume: name has no omitempty
PatchScalar(d, n) == n

PatchMedium(d, n) == PatchField(d, n, "")

PatchVolume(d, n) ==
  [Name |-> n.Name,
   EmptyDir |-> PatchPtr(d.EmptyDir, n.EmptyDir, "", "Medium"),
   ConfigMap |-> PatchPtr(d.ConfigMap, n.ConfigMap, "", "Scalar")]

VolumeIndexOf(list, volume) == FirstOf({k \in 1..Len(list) : volume.Name = list[k].Name})

RECURSIVE MergeVolumes(_, _)
MergeVolumes(dst, new) ==
  IF new = <<>> THEN [res |-> "ok", val |-> dst]
  ELSE LET volume == Head(new)
           index == VolumeIndexOf(dst, volume)
       IN IF index = 0 THEN MergeVolumes(Append(dst, volume), Tail(new))
          ELSE LET m == MergeK8s([kind |-> "ptr", val |-> dst[index]], Ref(dst[index]),
                                 Ref(volume), "Volume")
               IN IF m.res = "ok"
                  THEN MergeVolumes([dst EXCEPT ![index] = m.val], Tail(new))
                  ELSE [res |-> "panic", val |-> dst]

WithVolumes(p, volumes, o) ==
  LET tmpVolumes == CopySliceOrNil(volumes) IN
  IF IsOverwrite(o) \/ p.Volumes = Nil THEN Ok([p EXCEPT !.Volumes = tmpVolumes])
  ELSE IF IsOverwriteIfDefaultValue(o) /\ ElemPanics("slice") THEN Panic(p)
  ELSE IF IsMerge(o)
    THEN LET m == MergeVolumes(Val(p.Volumes), SeqOf(tmpVolumes))
         IN [res |-> m.res, t |-> [p EXCEPT !.Volumes = Ref(m.val)]]
  ELSE Ok(p)

PatchAffinity(d, n) ==
  [NodeAffinity |-> PatchPtr(d.NodeAffinity, n.NodeAffinity, "", "Scalar"),
   PodAntiAffinity |-> PatchPtr(d.PodAntiAffinity, n.PodAntiAffinity, "", "Scalar")]

\* affinity is passed by value
WithAffinity(p, affinity, o) ==
  IF IsOverwrite(o) \/ p.Affinity = Nil THEN Ok([p EXCEPT !.Affinity = Ref(affinity)])
  ELSE IF IsOverwriteIfDefaultValue(o) /\ Val(p.Affinity) = ZeroAffinity
    THEN Ok([p EXCEPT !.Affinity = Ref(affinity)])
  ELSE IF IsMerge(o)
    THEN LET m == MergeK8s([kind |-> "ptr", val |-> Val(p.Affinity)], p.Affinity,
                           Ref(affinity), "Affinity")
         IN IF m.res = "ok" THEN Ok([p EXCEPT !.Affinity = Ref(m.val)]) ELSE Panic(p)
  ELSE Ok(p)

PatchPodSecurityContext(d, n) ==
  [RunAsUser |-> PatchField(d.RunAsUser, n.RunAsUser, Nil),
   FSGroup |-> PatchField(d.FSGroup, n.FSGroup, Nil)]

WithPodSecurityContext(p, sc, o) ==
  IF IsOverwrite(o) \/ p.SecurityContext = Nil THEN Ok([p EXCEPT !.SecurityContext = sc])
  ELSE IF IsOverwriteIfDefaultValue(o) /\ Val(p.SecurityContext) = ZeroPodSecurityContext
    THEN Ok([p EXCEPT !.SecurityContext = sc])
  ELSE IF IsMerge(o)
    THEN LET m == MergeK8s([kind |-> "ptr", val |-> Val(p.SecurityContext)],
                           p.SecurityContext, sc, "PodSecurityContext")
         IN IF m.res = "ok" THEN Ok([p EXCEPT !.SecurityContext = Ref(m.val)])
            ELSE Panic(p)
  ELSE Ok(p)

\* a map field in the JSON round trip of MergeK8s: omitted when empty, and
\* decoded into the existing map, which keeps its other keys
PatchMap(d, n) ==
  IF n = Nil \/ n = Ref(EmptyMap) THEN d
  ELSE LET base == IF d = Nil THEN EmptyMap ELSE Val(d)
       IN Ref([k \in Keys |-> IF Val(n)[k] # Absent THEN Val(n)[k] ELSE base[k]])

\* MergeK8s on a corev1.PodTemplateSpec
PatchPodTemplate(d, n) ==
  [Labels |-> PatchMap(d.Labels, n.Labels),
   Annotations |-> PatchMap(d.Annotations, n.Annotations),
   ImagePullSecrets |-> PatchList(d.ImagePullSecrets, n.ImagePullSecrets),
   TerminationGracePeriodSeconds |->
     PatchField(d.TerminationGracePeriodSeconds, n.TerminationGracePeriodSeconds, Nil),
   Tolerations |-> PatchList(d.Tolerations, n.Tolerations),
   NodeSelector |-> PatchMap(d.NodeSelector, n.NodeSelector),
   InitContainers |-> PatchList(d.InitContainers, n.InitContainers),
   Containers |-> PatchList(d.Containers, n.Containers),
   Volumes |-> PatchList(d.Volumes, n.Volumes),
   Affinity |-> PatchPtr(d.Affinity, n.Affinity, ZeroAffinity, "Affinity"),
   SecurityContext |-> PatchPtr(d.SecurityContext, n.SecurityContext,
                                ZeroPodSecurityContext, "PodSecurityContext")]

\* h.WithContainers(org.Containers).WithContainers(new.Containers, Merge). ...
\* .WithVolumes(new.Volumes, Merge): a panic ends the chain where it happens
PodTemplateListChain(p, org, new) ==
  LET p1 == WithContainers(p, org.Containers, <<>>).t
      r2 == WithContainers(p1, new.Containers, <<Merge>>)
      p3 == WithImagePullSecrets(r2.t, org.ImagePullSecrets, <<>>).t
      p4 == WithImagePullSecrets(p3, new.ImagePullSecrets, <<Merge>>).t
      p5 == WithInitContainers(p4, org.InitContainers, <<>>).t
      p6 == WithInitContainers(p5, new.InitContainers, <<Merge>>).t
      p7 == WithTolerations(p6, org.Tolerations, <<>>).t
      p8 == WithTolerations(p7, new.Tolerations, <<Merge>>).t
      p9 == WithVolumes(p8, org.Volumes, <<>>).t
  IN IF r2.res = "panic" THEN r2 ELSE WithVolumes(p9, new.Volumes, <<Merge>>)

\* pts is Nil or <<v>>
WithPodTemplateSpec(p, pts, o) ==
  IF pts = Nil THEN Ok(p)
  ELSE IF IsOverwrite(o) THEN Ok(Val(pts))
  ELSE IF IsOverwriteIfDefaultValue(o) /\ PodTemplateIsZero(p) THEN Ok(Val(pts))
  ELSE IF IsMerge(o)
    THEN LET orgPts == p
             m == MergeK8s([kind |-> "ptr", val |-> p], Ref(p), pts, "PodTemplate")
         IN IF m.res = "ok" THEN PodTemplateListChain(m.val, orgPts, Val(pts))
            ELSE Panic(p)
  ELSE Ok(p)

\* ------------------------------------------------------- ingress setters
\* networkingv1.IngressSpec: two of its pointer fields
IngressSpecs == [IngressClassName : {Nil, Ref("nginx"), Ref("traefik")},
                 DefaultBackend : {Nil, Ref("svc")}]

ZeroIngressSpec == [IngressClassName |-> Nil, DefaultBackend |-> Nil]

\* &networkingv1.Ingress{}
ZeroIngress ==
  [Name |-> "", Namespace |-> "", Labels |-> Nil, Annotations |-> Nil,
   Spec |-> ZeroIngressSpec]

\* the outcome of a setter that returns err
Err(t) == [res |-> "error", t |-> t]

withName(g, name, o) ==
  IF IsOverwrite(o) \/ IsMerge(o) \/ g.Name = "" THEN Ok([g EXCEPT !.Name = name]) ELSE Ok(g)

withNamespace(g, namespace, o) ==
  IF IsOverwrite(o) \/ IsMerge(o) \/ g.Namespace = ""
  THEN Ok([g EXCEPT !.Namespace = namespace])
  ELSE Ok(g)

\* mergo.Merge(h.i.Labels, labels): the destination is passed by value, and
\* mergo refuses a destination that is not a pointer
withLabels(g, labels, o) ==
  IF IsOverwrite(o) \/ g.Labels = Nil THEN Ok([g EXCEPT !.Labels = labels])
  ELSE IF IsOverwriteIfDefaultValue(o) /\ ElemPanics("map") THEN Panic(g)
  ELSE IF IsMerge(o) /\ labels # Nil THEN Err(g)
  ELSE Ok(g)

\* the "overwrite only if not default" test reads h.i.Labels
withAnnotations(g, annotations, o) ==
  IF IsOverwrite(o) \/ g.Annotations = Nil THEN Ok([g EXCEPT !.Annotations = annotations])
  ELSE IF IsOverwriteIfDefaultValue(o) /\ ElemPanics("map") THEN Panic(g)
  ELSE IF IsMerge(o) /\ annotations # Nil THEN Err(g)
  ELSE Ok(g)

PatchIngressSpec(d, n) ==
  [IngressClassName |-> PatchField(d.IngressClassName, n.IngressClassName, Nil),
   DefaultBackend |-> PatchPtr(d.DefaultBackend, n.DefaultBackend, "", "Scalar")]

Patch(type, d, n) ==
  CASE type = "Scalar" -> PatchScalar(d, n)
    [] type = "Medium" -> PatchMedium(d, n)
    [] type = "SecurityContext" -> PatchSecurityContext(d, n)
    [] type = "Probe" -> PatchProbe(d, n)
    [] type = "Resources" -> PatchResources(d, n)
    [] type = "Container" -> PatchContainer(d, n)
    [] type = "Volume" -> PatchVolume(d, n)
    [] type = "Affinity" -> PatchAffinity(d, n)
    [] type = "PodSecurityContext" -> PatchPodSecurityContext(d, n)
    [] type = "PodTemplate" -> PatchPodTemplate(d, n)
    [] type = "IngressSpec" -> PatchIngressSpec(d, n)

\* is is Nil or <<v>>; h.i.Spec is a struct
withIngressSpec(g, is, o) ==
  IF is = Nil THEN Ok(g)
  ELSE IF IsOverwrite(o) THEN Ok([g EXCEPT !.Spec = Val(is)])
  ELSE IF IsOverwriteIfDefaultValue(o) /\ ElemPanics("struct") THEN Panic(g)
  ELSE IF IsMerge(o)
    THEN LET m == MergeK8s([kind |-> "ptr", val |-> g.Spec], Ref(g.Spec), is,
                           "IngressSpec")
         IN IF m.res = "ok" THEN Ok([g EXCEPT !.Spec = m.val]) ELSE Err(g)
  ELSE Ok(g)

\* ------------------------------------------------- the callers' arguments
PtrArgs(S) == {Nil} \cup {Ref(x) : x \in S}

EnvArgs == Slices(EnvVars)

EnvFromArgs == Slices(EnvFromSources)

PortArgs == Slices(ContainerPorts)

VolumeMountArgs == Slices(VolumeMounts)

ResourceArgs == PtrArgs(ResourceRequirements)

SecurityContextArgs == PtrArgs(SecurityContexts)

ProbeArgs == PtrArgs(Probes)

ContainerArgs == PtrArgs(Containers)

MapArgs ==
  {Nil, Ref(EmptyMap), Ref(Map("1", Absent)), Ref(Map("2", Absent)), Ref(Map("", Absent)),
   Ref(Map(Absent, "3")), Ref(Map("2", "3")), Ref(Map("1", "3"))}

ImagePullSecretArgs == Slices(LocalObjectReferences)

GracePeriodArgs == {0, 30}

TolerationArgs == Slices(Tolerations)

\* the containers passed in a list
ListedContainers ==
  {[ZeroContainer EXCEPT !.Name = "a"],
   [ZeroContainer EXCEPT !.Name = "a", !.Image = "nginx"],
   [ZeroContainer EXCEPT !.Name = "b", !.Image = "busybox"]}

ContainerListArgs == Slices(ListedContainers)

VolumeArgs == Slices(Volumes)

PodSecurityContextArgs == PtrArgs(PodSecurityContexts)

\* the pod templates a caller passes whole
PodTemplates ==
  {[ZeroPodTemplate EXCEPT !.Labels = l, !.Containers = cs, !.InitContainers = ics] :
     l \in {Nil, Ref(Map("1", Absent))},
     cs \in {Nil, Ref(<<[ZeroContainer EXCEPT !.Name = "a"]>>),
             Ref(<<[ZeroContainer EXCEPT !.Name = "a"], [ZeroContainer EXCEPT !.Name = "b"]>>)},
     ics \in {Nil, Ref(<<[ZeroContainer EXCEPT !.Name = "b"]>>)}}
  \cup {[ZeroPodTemplate EXCEPT !.ImagePullSecrets = Ref(<<[Name |-> "s1"]>>),
           !.TerminationGracePeriodSeconds = Ref(30),
           !.Tolerations = Ref(<<[Key |-> "k1", Operator |-> "Exists"]>>),
           !.NodeSelector = Ref(Map("1", Absent)),
           !.Annotations = Ref(Map(Absent, "3")),
           !.Volumes = Ref(<<[Name |-> "v1", EmptyDir |-> Ref(""), ConfigMap |-> Nil]>>),
           !.Affinity = Ref([NodeAffinity |-> Ref("n1"), PodAntiAffinity |-> Nil]),
           !.SecurityContext = Ref([RunAsUser |-> Ref(1000), FSGroup |-> Nil])]}

PodTemplateArgs == PtrArgs(PodTemplates)

Names == {"", "a", "b"}

IngressSpecArgs == PtrArgs(IngressSpecs)

\* --------------------------------------------------------------- actions
\* the last call: builder, method, options, argument, the target and the
\* operation log before it, and how it ended
NoCall ==
  [b |-> "", op |-> "", o |-> <<>>, arg |-> Nil, pre |-> Nil, log |-> <<>>, res |-> "ok"]

\* The map or slice a caller last handed to a setter that stored it: op is the
\* setter, val the caller's present view of it, given its value as the caller
\* left it, and alias tells whether the builder's field is that very object.
NoHeld == [b |-> "", op |-> "", val |-> Nil, given |-> Nil, alias |-> FALSE]

MapSetters == {"WithLabels", "WithAnnotations", "WithNodeSelector", "withLabels", "withAnnotations"}

ListSetters ==
  {"WithEnv", "WithEnvFrom", "WithPort", "WithVolumeMount", "WithImagePullSecrets",
   "WithTolerations", "WithInitContainers", "WithContainers", "WithVolumes"}

\* the field of target t that the map or list setter op assigns
OwnField(op, t) ==
  CASE op \in {"WithLabels", "withLabels"} -> t.Labels
    [] op \in {"WithAnnotations", "withAnnotations"} -> t.Annotations
    [] op = "WithNodeSelector" -> t.NodeSelector
    [] op = "WithEnv" -> t.Env
    [] op = "WithEnvFrom" -> t.EnvFrom
    [] op = "WithPort" -> t.Ports
    [] op = "WithVolumeMount" -> t.VolumeMounts
    [] op = "WithImagePullSecrets" -> t.ImagePullSecrets
    [] op = "WithTolerations" -> t.Tolerations
    [] op = "WithInitContainers" -> t.InitContainers
    [] op = "WithContainers" -> t.Containers
    [] op = "WithVolumes" -> t.Volumes

\* What a setter call does to the caller's object. A map setter on its
\* assigning path stores the caller's map itself (h.podTemplate.Labels = labels);
\* a list setter stores a copy made with make and copy. mergo.Merge(&field, new)
\* writes the keys into the map the field refers to, so into the caller's map
\* when the field is that map. A whole-object setter ends the tracking.
HeldAfter(b, op, arg, o, pre, r) ==
  IF op \in MapSetters \cup ListSetters
  THEN IF IsOverwrite(o) \/ OwnField(op, pre) = Nil
       THEN [b |-> b, op |-> op, val |-> arg, given |-> arg,
             alias |-> op \in MapSetters /\ arg # Nil]
       ELSE IF held.alias /\ held.b = b /\ held.op = op /\ r.res = "ok"
       THEN [held EXCEPT !.val = OwnField(op, r.t)]
       ELSE held
  ELSE IF op \in {"WithContainer", "WithPodTemplateSpec"} /\ held.b = b THEN NoHeld
  ELSE held

\* the last return of Build: the number of returns without error so far, the
\* target returned (Nil for none) and the name the error reports ("" for none)
NotBuilt == [n |-> 0, target |-> Nil, err |-> ""]

\* one builder is used per run, for at most MaxCalls calls, and not after a panic
CanCall(b) == last.b \in {"", b} /\ last.res # "panic" /\ calls < MaxCalls

Resolve ==
  /\ last.b \in {"", "policy"}
  /\ ~resolved.done
  /\ resolved' = Resolution(opts)
  /\ last' = [NoCall EXCEPT !.b = "policy", !.op = "Resolve", !.o = opts]
  /\ UNCHANGED <<opts, container, podTemplate, i, calls, held, operations, built, dstAny>>

NextOpts ==
  /\ last.b = "policy"
  /\ resolved.done
  /\ opts' \in OptLists
  /\ resolved' = NoResolution
  /\ last' = [NoCall EXCEPT !.b = "policy", !.op = "NextOpts"]
  /\ UNCHANGED <<container, podTemplate, i, calls, held, operations, built, dstAny>>

ContainerCall(op, arg, o, r) ==
  /\ CanCall("container")
  /\ container' = r.t
  /\ last' = [b |-> "container", op |-> op, o |-> o, arg |-> arg, pre |-> container,
              log |-> operations, res |-> r.res]
  /\ calls' = calls + 1
  /\ held' = HeldAfter("container", op, arg, o, container, r)
  /\ UNCHANGED <<opts, resolved, podTemplate, i, operations, built, dstAny>>

CallWithImage ==
  \E image \in Images, o \in SetterOpts :
    ContainerCall("WithImage", image, o, WithImage(container, image, o))

CallWithImagePullPolicy ==
  \E pullPolicy \in PullPolicies, o \in SetterOpts :
    ContainerCall("WithImagePullPolicy", pullPolicy, o,
                  WithImagePullPolicy(container, pullPolicy, o))

CallWithEnv ==
  \E envs \in EnvArgs, o \in SetterOpts :
    ContainerCall("WithEnv", envs, o, WithEnv(container, envs, o))

CallWithEnvFrom ==
  \E envFroms \in EnvFromArgs, o \in SetterOpts :
    ContainerCall("WithEnvFrom", envFroms, o, WithEnvFrom(container, envFroms, o))

CallWithPort ==
  \E ports \in PortArgs, o \in SetterOpts :
    ContainerCall("WithPort", ports, o, WithPort(container, ports, o))

CallWithVolumeMount ==
  \E volumeMounts \in VolumeMountArgs, o \in SetterOpts :
    ContainerCall("WithVolumeMount", volumeMounts, o,
                  WithVolumeMount(container, volumeMounts, o))

CallWithResource ==
  \E resources \in ResourceArgs, o \in SetterOpts :
    ContainerCall("WithResource", resources, o, WithResource(container, resources, o))

CallWithSecurityContext ==
  \E sc \in SecurityContextArgs, o \in SetterOpts :
    ContainerCall("WithSecurityContext", sc, o, WithSecurityContext(container, sc, o))

CallWithLivenessProbe ==
  \E probe \in ProbeArgs, o \in SetterOpts :
    ContainerCall("WithLivenessProbe", probe, o, WithLivenessProbe(container, probe, o))

CallWithReadinessProbe ==
  \E probe \in ProbeArgs, o \in SetterOpts :
    ContainerCall("WithReadinessProbe", probe, o, WithReadinessProbe(container, probe, o))

CallWithStartupProbe ==
  \E probe \in ProbeArgs, o \in SetterOpts :
    ContainerCall("WithStartupProbe", probe, o, WithStartupProbe(container, probe, o))

CallWithContainer ==
  \E c \in ContainerArgs, o \in SetterOpts :
    ContainerCall("WithContainer", c, o, WithContainer(container, c, o))

PodTemplateCall(op, arg, o, r) ==
  /\ CanCall("podTemplate")
  /\ podTemplate' = r.t
  /\ last' = [b |-> "podTemplate", op |-> op, o |-> o, arg |-> arg, pre |-> podTemplate,
              log |-> operations, res |-> r.res]
  /\ calls' = calls + 1
  /\ held' = HeldAfter("podTemplate", op, arg, o, podTemplate, r)
  /\ UNCHANGED <<opts, resolved, container, i, operations, built, dstAny>>

CallWithPodTemplateSpec ==
  \E pts \in PodTemplateArgs, o \in SetterOpts :
    PodTemplateCall("WithPodTemplateSpec", pts, o, WithPodTemplateSpec(podTemplate, pts, o))

CallWithLabels ==
  \E labels \in MapArgs, o \in SetterOpts :
    PodTemplateCall("WithLabels", labels, o, WithLabels(podTemplate, labels, o))

CallWithAnnotations ==
  \E annotations \in MapArgs, o \in SetterOpts :
    PodTemplateCall("WithAnnotations", annotations, o,
                    WithAnnotations(podTemplate, annotations, o))

CallWithImagePullSecrets ==
  \E ips \in ImagePullSecretArgs, o \in SetterOpts :
    PodTemplateCall("WithImagePullSecrets", ips, o, WithImagePullSecrets(podTemplate, ips, o))

CallWithTerminationGracePeriodSeconds ==
  \E nb \in GracePeriodArgs, o \in SetterOpts :
    PodTemplateCall("WithTerminationGracePeriodSeconds", nb, o,
                    WithTerminationGracePeriodSeconds(podTemplate, nb, o))

CallWithTolerations ==
  \E tolerations \in TolerationArgs, o \in SetterOpts :
    PodTemplateCall("WithTolerations", tolerations, o,
                    WithTolerations(podTemplate, tolerations, o))

CallWithNodeSelector ==
  \E nodeSelector \in MapArgs, o \in SetterOpts :
    PodTemplateCall("WithNodeSelector", nodeSelector, o,
                    WithNodeSelector(podTemplate, nodeSelector, o))

CallWithInitContainers ==
  \E containers \in ContainerListArgs, o \in SetterOpts :
    PodTemplateCall("WithInitContainers", containers, o,
                    WithInitContainers(podTemplate, containers, o))

CallWithContainers ==
  \E containers \in ContainerListArgs, o \in SetterOpts :
    PodTemplateCall("WithContainers", containers, o,
                    WithContainers(podTemplate, containers, o))

CallWithVolumes ==
  \E volumes \in VolumeArgs, o \in SetterOpts :
    PodTemplateCall("WithVolumes", volumes, o, WithVolumes(podTemplate, volumes, o))

CallWithAffinity ==
  \E affinity \in Affinities, o \in SetterOpts :
    PodTemplateCall("WithAffinity", affinity, o, WithAffinity(podTemplate, affinity, o))

CallWithPodSecurityContext ==
  \E sc \in PodSecurityContextArgs, o \in SetterOpts :
    PodTemplateCall("WithPodSecurityContext", sc, o,
                    WithPodSecurityContext(podTemplate, sc, o))

\* the setters of the ingress builder, applied to its target h.i
IngressCall(op, arg, o, r) ==
  /\ CanCall("ingress")
  /\ i' = r.t
  /\ last' = [b |-> "ingress", op |-> op, o |-> o, arg |-> arg, pre |-> i,
              log |-> operations, res |-> r.res]
  /\ calls' = calls + 1
  /\ held' = HeldAfter("ingress", op, arg, o, i, r)
  /\ UNCHANGED <<opts, resolved, container, podTemplate, operations, built, dstAny>>

CallwithName ==
  \E name \in Names, o \in SetterOpts : IngressCall("withName", name, o, withName(i, name, o))

CallwithNamespace ==
  \E namespace \in Names, o \in SetterOpts :
    IngressCall("withNamespace", namespace, o, withNamespace(i, namespace, o))

CallwithLabels ==
  \E labels \in MapArgs, o \in SetterOpts :
    IngressCall("withLabels", labels, o, withLabels(i, labels, o))

CallwithAnnotations ==
  \E annotations \in MapArgs, o \in SetterOpts :
    IngressCall("withAnnotations", annotations, o, withAnnotations(i, annotations, o))

CallwithIngressSpec ==
  \E is \in IngressSpecArgs, o \in SetterOpts :
    IngressCall("withIngressSpec", is, o, withIngressSpec(i, is, o))

\* ------------------------------------------- the deferred ingress builder
\* Operation{Name, Args}: Args is append([]any{x}, opts), the argument followed
\* by the option slice as one element
Operation(name, x, o) == [Name |-> name, Args |-> <<x, o>>]

\* the public setter recording at the head of the log
RecordFirst(ops, name, x, o) == <<Operation(name, x, o)>> \o ops

\* h.operations = append(h.operations, o)
Record(ops, name, x, o) == Append(ops, Operation(name, x, o))

\* the method set reflect sees on *IngressBuilderDefault: the exported methods
ExportedMethods ==
  {"WithIngressSpec", "WithLabels", "WithAnnotations", "WithName", "WithNamespace", "Build"}

\* rv.MethodByName(name): a func Value, or the zero Value when no exported
\* method has the name
MethodByName(name) == IF name \in ExportedMethods THEN "func" ELSE "invalid"

\* m.IsZero(): panics on the zero Value; a method value is never nil
IsZero(m) == IF m = "invalid" THEN "panic" ELSE "false"

\* m.Call(args) with the recorded Args: the option slice is one argument where
\* the variadic parameter takes WithOption values (Build itself takes none), so
\* reflect panics on the argument list
Call(m, args) == "panic"

\* Build clearing the log however it ends
BuildFromDraining(g, ops, k) ==
  IF \A j \in k..Len(ops) : ops[j].Name = ""
  THEN [res |-> "ok", t |-> g, operations |-> <<>>, target |-> Ref(g), err |-> ""]
  ELSE [res |-> "panic", t |-> g, operations |-> <<>>, target |-> Nil, err |-> ""]

\* Build from operation k of the log ops on target g: the outcome, the target,
\* the log left, and what is returned
RECURSIVE BuildFrom(_, _, _)
BuildFrom(g, ops, k) ==
  IF k > Len(ops)
  THEN [res |-> "ok", t |-> g, operations |-> <<>>, target |-> Ref(g), err |-> ""]
  ELSE IF ops[k].Name = "" THEN BuildFrom(g, ops, k + 1)
  ELSE LET m == MethodByName(ops[k].Name)
           stopped == [res |-> "panic", t |-> g, operations |-> ops, target |-> Nil,
                       err |-> ""]
       IN IF IsZero(m) = "panic" THEN stopped
          ELSE IF IsZero(m) = "true"
          THEN [res |-> "error", t |-> g, operations |-> ops, target |-> Nil,
                err |-> ops[k].Name]
          ELSE IF Call(m, ops[k].Args) = "panic" THEN stopped
          ELSE BuildFrom(g, ops, k + 1)

\* the arguments of the recorded calls
DeferredOpts == {<<>>, <<OverwriteIfDefaultValue>>, <<Merge>>}

DeferredMaps == {Nil, Ref(Map("1", Absent)), Ref(Map("2", "3"))}

DeferredSpecs == {Nil, Ref([IngressClassName |-> Ref("nginx"), DefaultBackend |-> Nil])}

\* a public setter of the ingress builder: one Operation is appended
DeferredCall(op, name, x, o) ==
  /\ CanCall("ingress")
  /\ operations' = Record(operations, name, x, o)
  /\ last' = [b |-> "ingress", op |-> op, o |-> o, arg |-> x, pre |-> i,
              log |-> operations, res |-> "ok"]
  /\ calls' = calls + 1
  /\ UNCHANGED <<opts, resolved, container, podTemplate, i, held, built, dstAny>>

CallWithIngressSpec ==
  \E is \in DeferredSpecs, o \in DeferredOpts :
    DeferredCall("WithIngressSpec", "withIngressSpec", is, o)

CallIngressWithLabels ==
  \E labels \in DeferredMaps, o \in DeferredOpts :
    DeferredCall("WithLabels", "withLabels", labels, o)

CallIngressWithAnnotations ==
  \E annotations \in DeferredMaps, o \in DeferredOpts :
    DeferredCall("WithAnnotations", "withAnnotations", annotations, o)

CallWithName ==
  \E name \in Names, o \in DeferredOpts : DeferredCall("WithName", "withName", name, o)

CallWithNamespace ==
  \E namespace \in Names, o \in DeferredOpts :
    DeferredCall("WithNamespace", "withNamespace", namespace, o)

\* Build, on a builder that has not panicked, at most MaxBuilds returns
CallBuild ==
  /\ last.b \in {"", "ingress"}
  /\ last.res # "panic"
  /\ built.n < MaxBuilds
  /\ LET r == BuildFrom(i, operations, 1)
     IN /\ i' = r.t
        /\ operations' = r.operations
        /\ built' = IF r.res = "ok" THEN [n |-> built.n + 1, target |-> r.target, err |-> ""]
                    ELSE IF r.res = "error" THEN [built EXCEPT !.target = Nil, !.err = r.err]
                    ELSE built
        /\ last' = [b |-> "ingress", op |-> "Build", o |-> <<>>, arg |-> Nil, pre |-> i,
                    log |-> operations, res |-> r.res]
  /\ UNCHANGED <<opts, resolved, container, podTemplate, calls, held, dstAny>>

\* ----------------------------------------------------- MergeK8s, called directly
\* what a caller can pass as dst: nil, a *SecurityContext, a **SecurityContext
\* or a SecurityContext value
DstHandles ==
  {Nil} \cup [kind : {"ptr", "ptrptr", "value"}, val : SecurityContexts]

\* dst as MergeK8s sees it
Handle(d) == IF d = Nil THEN [kind |-> "nil", val |-> Nil] ELSE d

\* one call of MergeK8s(dst, src, new) on the destination at hand
CallMergeK8s ==
  /\ last.op = ""
  /\ dstAny \in DstHandles
  /\ \E src \in PtrArgs(SecurityContexts), new \in PtrArgs(SecurityContexts) :
       LET r == MergeK8s(Handle(dstAny), src, new, "SecurityContext")
       IN /\ dstAny' = IF dstAny = Nil THEN Nil ELSE [dstAny EXCEPT !.val = r.val]
          /\ last' = [b |-> "", op |-> "MergeK8s", o |-> <<>>, arg |-> <<src, new>>,
                      pre |-> dstAny, log |-> <<>>, res |-> r.res]
  /\ calls' = calls + 1
  /\ UNCHANGED <<opts, resolved, container, podTemplate, i, held, operations, built>>

\* ------------------------------------------------------- MergeSliceOrDie
\* the items of the slices: corev1.EnvFromSource values, Name standing for
\* ConfigMapRef.LocalObjectReference.Name
AnyItems ==
  [Name : {"test1", "test2", "test3"}, Prefix : {""}] \cup {[Name |-> "test1", Prefix |-> "p"]}

\* the field paths a caller can name as key
ItemKeys == {"ConfigMapRef.LocalObjectReference.Name", "Prefix"}

\* funk.Get(item, key): the value at path key of item
Get(item, key) == IF key = "Prefix" THEN item.Prefix ELSE item.Name

\* the loop over one source comparing whole items
MergeItemsByItem(cur, key, src) ==
  cur \o SelectSeq(src, LAMBDA e : \A k \in 1..Len(cur) : cur[k] # e)

\* the loop over the items of one source: an item is appended to cur unless an
\* item of cur, those appended before it included, has its key value
RECURSIVE MergeItems(_, _, _)
MergeItems(cur, key, src) ==
  IF src = <<>> THEN cur
  ELSE LET expectedItem == Head(src)
           found == \E k \in 1..Len(cur) : Get(cur[k], key) = Get(expectedItem, key)
       IN MergeItems(IF found THEN cur ELSE Append(cur, expectedItem), key, Tail(src))

\* the loop over the sources
RECURSIVE MergeSources(_, _, _)
MergeSources(cur, key, srcs) ==
  IF srcs = <<>> THEN cur
  ELSE MergeSources(MergeItems(cur, key, Head(srcs)), key, Tail(srcs))

\* MergeSliceOrDie(dst, key, src...): dst is a pointer to the slice
MergeSliceOrDie(dst, key, srcs) ==
  IF dst = Nil THEN [res |-> "panic", dst |-> dst]
  ELSE [res |-> "ok", dst |-> Ref(MergeSources(Val(dst), key, srcs))]

AnySlices == SeqsUpTo(AnyItems, MaxLen)

\* the variadic sources of a call: none, one or two slices
AnySources ==
  {<<>>} \cup {<<s>> : s \in AnySlices} \cup {<<s, t>> : s \in AnySlices, t \in AnySlices}

\* one call of MergeSliceOrDie on the slice at hand
CallMergeSliceOrDie ==
  /\ last.op = ""
  /\ \E key \in ItemKeys, srcs \in AnySources :
       LET r == MergeSliceOrDie(dstAny, key, srcs)
       IN /\ dstAny' = r.dst
          /\ last' = [b |-> "", op |-> "MergeSliceOrDie", o |-> key, arg |-> srcs,
                      pre |-> dstAny, log |-> <<>>, res |-> r.res]
  /\ calls' = calls + 1
  /\ UNCHANGED <<opts, resolved, container, podTemplate, i, held, operations, built>>

\* the entries a caller can put in the slice it handed to list setter op
ElementsOf(op) ==
  CASE op = "WithEnv" -> EnvVars
    [] op = "WithEnvFrom" -> EnvFromSources
    [] op = "WithPort" -> ContainerPorts
    [] op = "WithVolumeMount" -> VolumeMounts
    [] op = "WithImagePullSecrets" -> LocalObjectReferences
    [] op = "WithTolerations" -> Tolerations
    [] op \in {"WithInitContainers", "WithContainers"} -> ListedContainers
    [] op = "WithVolumes" -> Volumes

\* the changes a caller can make to the object it holds: set or delete a key
\* of a map, replace an entry of a slice, append an entry to it
Mutations(op, val) ==
  IF op \in MapSetters
  THEN IF val = Nil THEN {}
       ELSE {Ref([Val(val) EXCEPT ![k] = v]) : k \in Keys, v \in {"2", Absent}}
  ELSE LET list == SeqOf(val)
       IN {Ref([list EXCEPT ![k] = e]) : k \in 1..Len(list), e \in ElementsOf(op)}
          \cup (IF Len(list) <= MaxLen THEN {Ref(Append(list, e)) : e \in ElementsOf(op)}
                ELSE {})

\* target t once the map its field op refers to holds v
Aliased(op, t, v) ==
  CASE op \in {"WithLabels", "withLabels"} -> [t EXCEPT !.Labels = v]
    [] op \in {"WithAnnotations", "withAnnotations"} -> [t EXCEPT !.Annotations = v]
    [] op = "WithNodeSelector" -> [t EXCEPT !.NodeSelector = v]

\* The caller changes the map or slice it handed over. The builder's field
\* changes with it when it is the same object.
CallerMutates ==
  /\ held.op # ""
  /\ CanCall(held.b)
  /\ \E m \in Mutations(held.op, held.val) :
       /\ held' = [held EXCEPT !.val = m, !.given = m]
       /\ podTemplate' = IF held.alias /\ held.b = "podTemplate"
                         THEN Aliased(held.op, podTemplate, m) ELSE podTemplate
       /\ i' = IF held.alias /\ held.b = "ingress" THEN Aliased(held.op, i, m) ELSE i
       /\ last' = [b |-> held.b, op |-> "CallerMutates", o |-> <<>>, arg |-> m,
                   pre |-> CASE held.b = "container" -> container
                             [] held.b = "podTemplate" -> podTemplate
                             [] held.b = "ingress" -> i,
                   log |-> operations, res |-> "ok"]
  /\ calls' = calls + 1
  /\ UNCHANGED <<opts, resolved, container, operations, built, dstAny>>

\* NewContainerBuilder, NewPodTemplateBuilder, NewIngressBuilder
Init ==
  /\ opts = <<>>
  /\ resolved = NoResolution
  /\ container = ZeroContainer
  /\ podTemplate = ZeroPodTemplate
  /\ i = ZeroIngress
  /\ last = NoCall
  /\ calls = 0
  /\ held = NoHeld
  /\ operations = <<>>
  /\ built = NotBuilt
  /\ dstAny = <<>>

Next ==
  \/ Resolve
  \/ NextOpts
  \/ CallWithImage
  \/ CallWithImagePullPolicy
  \/ CallWithEnv
  \/ CallWithEnvFrom
  \/ CallWithPort
  \/ CallWithVolumeMount
  \/ CallWithResource
  \/ CallWithSecurityContext
  \/ CallWithLivenessProbe
  \/ CallWithReadinessProbe
  \/ CallWithStartupProbe
  \/ CallWithContainer
  \/ CallWithPodTemplateSpec
  \/ CallWithLabels
  \/ CallWithAnnotations
  \/ CallWithImagePullSecrets
  \/ CallWithTerminationGracePeriodSeconds
  \/ CallWithTolerations
  \/ CallWithNodeSelector
  \/ CallWithInitContainers
  \/ CallWithContainers
  \/ CallWithVolumes
  \/ CallWithAffinity
  \/ CallWithPodSecurityContext
  \/ CallwithName
  \/ CallwithNamespace
  \/ CallwithLabels
  \/ CallwithAnnotations
  \/ CallwithIngressSpec
  \/ CallerMutates
  \/ CallWithIngressSpec
  \/ CallIngressWithLabels
  \/ CallIngressWithAnnotations
  \/ CallWithName
  \/ CallWithNamespace
  \/ CallBuild
  \/ CallMergeSliceOrDie
  \/ CallMergeK8s

Spec == Init /\ [][Next]_vars

NextPolicy == Resolve \/ NextOpts

SpecPolicy == Init /\ [][NextPolicy]_vars

NextContainer ==
  \/ CallWithImage
  \/ CallWithImagePullPolicy
  \/ CallWithEnv
  \/ CallWithEnvFrom
  \/ CallWithPort
  \/ CallWithVolumeMount
  \/ CallWithResource
  \/ CallWithSecurityContext
  \/ CallWithLivenessProbe
  \/ CallWithReadinessProbe
  \/ CallWithStartupProbe
  \/ CallWithContainer

SpecContainer == Init /\ [][NextContainer]_vars

NextPodTemplate ==
  \/ CallWithPodTemplateSpec
  \/ CallWithLabels
  \/ CallWithAnnotations
  \/ CallWithImagePullSecrets
  \/ CallWithTerminationGracePeriodSeconds
  \/ CallWithTolerations
  \/ CallWithNodeSelector
  \/ CallWithInitContainers
  \/ CallWithContainers
  \/ CallWithVolumes
  \/ CallWithAffinity
  \/ CallWithPodSecurityContext

SpecPodTemplate == Init /\ [][NextPodTemplate]_vars

NextIngress ==
  \/ CallwithName
  \/ CallwithNamespace
  \/ CallwithLabels
  \/ CallwithAnnotations
  \/ CallwithIngressSpec

SpecIngress == Init /\ [][NextIngress]_vars

\* the scalar setters of the three builders, with the whole-object setters
\* that also write the scalar fields
NextScalar ==
  \/ CallWithImage
  \/ CallWithImagePullPolicy
  \/ CallWithContainer
  \/ CallWithTerminationGracePeriodSeconds
  \/ CallWithPodTemplateSpec
  \/ CallwithName
  \/ CallwithNamespace

SpecScalar == Init /\ [][NextScalar]_vars

\* the pod templates left by WithInitContainers, WithContainers and WithVolumes
\* called on a new builder, each on its nil field
PopulatedTemplates ==
  {[ZeroPodTemplate EXCEPT !.InitContainers = ics, !.Containers = cs, !.Volumes = vs] :
     ics \in ContainerListArgs, cs \in ContainerListArgs,
     vs \in {Nil, Ref(<<[Name |-> "v1", EmptyDir |-> Ref(""), ConfigMap |-> Nil]>>)}}

\* a pod template builder after those calls, with one call left
InitPopulated ==
  /\ opts = <<>>
  /\ resolved = NoResolution
  /\ container = ZeroContainer
  /\ podTemplate \in PopulatedTemplates
  /\ i = ZeroIngress
  /\ last = NoCall
  /\ calls = MaxCalls - 1
  /\ held = NoHeld
  /\ operations = <<>>
  /\ built = NotBuilt
  /\ dstAny = Nil

\* the setters of the lists of plain values
NextPlain ==
  \/ CallWithEnv
  \/ CallWithEnvFrom
  \/ CallWithTolerations

SpecPlain == Init /\ [][NextPlain]_vars

\* the setters of the lists of containers and volumes
NextLists ==
  \/ CallWithInitContainers
  \/ CallWithContainers
  \/ CallWithVolumes

SpecLists == InitPopulated /\ [][NextLists]_vars

\* MergeK8s on any destination
InitMergeK8s ==
  /\ opts = <<>>
  /\ resolved = NoResolution
  /\ container = ZeroContainer
  /\ podTemplate = ZeroPodTemplate
  /\ i = ZeroIngress
  /\ last = NoCall
  /\ calls = 0
  /\ held = NoHeld
  /\ operations = <<>>
  /\ built = NotBuilt
  /\ dstAny \in DstHandles

NextMergeK8s == CallMergeK8s

SpecMergeK8s == InitMergeK8s /\ [][NextMergeK8s]_vars

\* MergeSliceOrDie on any destination: a nil pointer, or a slice of items
InitMergeSlice ==
  /\ opts = <<>>
  /\ resolved = NoResolution
  /\ container = ZeroContainer
  /\ podTemplate = ZeroPodTemplate
  /\ i = ZeroIngress
  /\ last = NoCall
  /\ calls = 0
  /\ held = NoHeld
  /\ operations = <<>>
  /\ built = NotBuilt
  /\ dstAny \in {Nil} \cup {Ref(s) : s \in AnySlices}

NextMergeSlice == CallMergeSliceOrDie

SpecMergeSlice == InitMergeSlice /\ [][NextMergeSlice]_vars

\* the public methods of the ingress builder
NextDeferred ==
  \/ CallWithIngressSpec
  \/ CallIngressWithLabels
  \/ CallIngressWithAnnotations
  \/ CallWithName
  \/ CallWithNamespace
  \/ CallBuild

SpecDeferred == Init /\ [][NextDeferred]_vars

\* the setters of one nested record
NextNested ==
  \/ CallWithResource
  \/ CallWithSecurityContext
  \/ CallWithLivenessProbe
  \/ CallWithReadinessProbe
  \/ CallWithStartupProbe
  \/ CallWithAffinity
  \/ CallWithPodSecurityContext
  \/ CallwithIngressSpec

SpecNested == Init /\ [][NextNested]_vars

\* the map and list setters, and the caller's later changes to what it passed
NextAlias ==
  \/ CallWithEnv
  \/ CallWithEnvFrom
  \/ CallWithPort
  \/ CallWithVolumeMount
  \/ CallWithLabels
  \/ CallWithAnnotations
  \/ CallWithImagePullSecrets
  \/ CallWithTolerations
  \/ CallWithNodeSelector
  \/ CallWithInitContainers
  \/ CallWithContainers
  \/ CallWithVolumes
  \/ CallwithLabels
  \/ CallwithAnnotations
  \/ CallerMutates

SpecAlias == Init /\ [][NextAlias]_vars

\* every setter of the three builders, applied at once
NextSetters == NextContainer \/ NextPodTemplate \/ NextIngress

SpecSetters == Init /\ [][NextSetters]_vars

\* ------------------------------------------------------------- the claims
\* The setters by the kind of field they set.
ScalarOps ==
  {"WithImage", "WithImagePullPolicy", "WithTerminationGracePeriodSeconds", "withName",
   "withNamespace"}

MapOps == {"WithLabels", "WithAnnotations", "WithNodeSelector", "withLabels", "withAnnotations"}

KeyedListOps ==
  {"WithPort", "WithVolumeMount", "WithVolumes", "WithContainers", "WithInitContainers",
   "WithImagePullSecrets"}

PlainListOps == {"WithEnv", "WithEnvFrom", "WithTolerations"}

PtrRecordOps ==
  {"WithSecurityContext", "WithLivenessProbe", "WithReadinessProbe", "WithStartupProbe",
   "WithPodSecurityContext"}

NilableRecordOps ==
  PtrRecordOps \cup {"WithResource", "WithContainer", "WithPodTemplateSpec", "withIngressSpec"}

\* the field of target t that setter op owns (the whole target for a whole-object setter)
FieldOf(op, t) ==
  CASE op = "WithImage" -> t.Image
    [] op = "WithImagePullPolicy" -> t.ImagePullPolicy
    [] op = "WithEnv" -> t.Env
    [] op = "WithEnvFrom" -> t.EnvFrom
    [] op = "WithPort" -> t.Ports
    [] op = "WithVolumeMount" -> t.VolumeMounts
    [] op = "WithResource" -> t.Resources
    [] op \in {"WithSecurityContext", "WithPodSecurityContext"} -> t.SecurityContext
    [] op = "WithLivenessProbe" -> t.LivenessProbe
    [] op = "WithReadinessProbe" -> t.ReadinessProbe
    [] op = "WithStartupProbe" -> t.StartupProbe
    [] op \in {"WithContainer", "WithPodTemplateSpec"} -> t
    [] op \in {"WithLabels", "withLabels"} -> t.Labels
    [] op \in {"WithAnnotations", "withAnnotations"} -> t.Annotations
    [] op = "WithImagePullSecrets" -> t.ImagePullSecrets
    [] op = "WithTerminationGracePeriodSeconds" -> t.TerminationGracePeriodSeconds
    [] op = "WithTolerations" -> t.Tolerations
    [] op = "WithNodeSelector" -> t.NodeSelector
    [] op = "WithInitContainers" -> t.InitContainers
    [] op = "WithContainers" -> t.Containers
    [] op = "WithVolumes" -> t.Volumes
    [] op = "WithAffinity" -> t.Affinity
    [] op = "withName" -> t.Name
    [] op = "withNamespace" -> t.Namespace
    [] op = "withIngressSpec" -> t.Spec

\* the target of the builder the last call was made on
Target ==
  CASE last.b = "container" -> container
    [] last.b = "podTemplate" -> podTemplate
    [] last.b = "ingress" -> i

\* the owned field before and after the last call
Before == FieldOf(last.op, last.pre)

After == FieldOf(last.op, Target)

\* the identity of an entry of the list that setter op owns
KeyOf(op, e) ==
  CASE op = "WithPort" -> e.ContainerPort
    [] op = "WithVolumeMount" -> <<e.MountPath, e.SubPath>>
    [] op \in PlainListOps -> e
    [] OTHER -> e.Name

KeysOf(op, list) == [k \in 1..Len(list) |-> KeyOf(op, list[k])]

NoDuplicate(keys) == \A j, k \in 1..Len(keys) : keys[j] = keys[k] => j = k

InSeq(x, seq) == \E k \in 1..Len(seq) : seq[k] = x

\* keys, followed by the keys of new that are not among them, each once
RECURSIVE AppendNovel(_, _)
AppendNovel(keys, new) ==
  IF new = <<>> THEN keys
  ELSE AppendNovel(IF InSeq(Head(new), keys) THEN keys ELSE Append(keys, Head(new)),
                   Tail(new))

\* the last call merged a list into a non-nil destination
ListMerge(ops) == last.op \in ops /\ IsMerge(last.o) /\ Before # Nil

\* C1 (as claimed): whatever option list a setter is given, exactly one of
\* IsOverwrite, IsOverwriteIfDefaultValue and IsMerge is true.
C1_ExactlyOnePolicy ==
  resolved.done =>
    Cardinality({f \in {"overwrite", "ifDefault", "merge"} : resolved[f]}) = 1

\* C2: the policy depends only on the first token: no token resolves to
\* Overwrite alone, and a list resolves as the list of its first token.
C2_FirstTokenDecides ==
  resolved.done =>
    /\ opts = <<>> => resolved.overwrite /\ ~resolved.ifDefault /\ ~resolved.merge
    /\ opts # <<>> => resolved = Resolution(<<opts[1]>>)

C2_Witness ==
  /\ resolved.done
  /\ Len(opts) >= 2
  /\ opts[1] = OverwriteIfDefaultValue
  /\ opts[2] = Merge
  /\ resolved.ifDefault
  /\ ~resolved.merge

\* the value a scalar setter stores for its argument, and the unset value
ScalarNew == IF last.op = "WithTerminationGracePeriodSeconds" THEN Ref(last.arg) ELSE last.arg

ScalarUnset == IF last.op = "WithTerminationGracePeriodSeconds" THEN Nil ELSE ""

\* C3: a scalar setter under Overwrite or Merge stores the new value; under
\* OverwriteIfDefaultValue it stores it when the field is unset and leaves a
\* set field as it was.
C3_ScalarSetter ==
  last.op \in ScalarOps =>
    /\ last.res = "ok"
    /\ (IsOverwrite(last.o) \/ IsMerge(last.o)) => After = ScalarNew
    /\ IsOverwriteIfDefaultValue(last.o) =>
         After = (IF Before = ScalarUnset THEN ScalarNew ELSE Before)

C3_Witness ==
  /\ last.op = "WithImage"
  /\ IsOverwriteIfDefaultValue(last.o)
  /\ last.pre.Image = "nginx"
  /\ last.arg = "busybox"
  /\ container.Image = "nginx"

\* C4 (as claimed): merging map N into a non-nil map D gives the keys of both,
\* with N's value for every key of N and D's value for the others.
C4_MapMergeNewWins ==
  (last.op \in MapOps /\ IsMerge(last.o) /\ Before # Nil /\ last.arg # Nil) =>
    /\ last.res = "ok"
    /\ After # Nil
    /\ \A k \in Keys :
         Val(After)[k] = (IF Val(last.arg)[k] # Absent THEN Val(last.arg)[k]
                          ELSE Val(Before)[k])

\* C5 (as claimed): merging into a non-nil identity-keyed list keeps the
\* destination's identities in order, followed by the new identities in the
\* new list's order, and leaves the unmatched destination entries as they were.
C5_KeyedListMerge ==
  (ListMerge(KeyedListOps) /\ last.res = "ok") =>
    LET D == Val(Before)
        N == SeqOf(last.arg)
        R == Val(After)
    IN /\ KeysOf(last.op, R) = AppendNovel(KeysOf(last.op, D), KeysOf(last.op, N))
       /\ \A k \in 1..Len(D) :
            ~InSeq(KeyOf(last.op, D[k]), KeysOf(last.op, N)) => R[k] = D[k]

\* C6 (as claimed): merging an identity-keyed list with a list equal to itself
\* keeps its length and duplicates no identity.
C6_SelfMergeIdempotent ==
  (ListMerge(KeyedListOps) /\ last.arg = Before) =>
    /\ last.res = "ok"
    /\ Len(Val(After)) = Len(Val(Before))
    /\ NoDuplicate(KeysOf(last.op, Val(Before))) => NoDuplicate(KeysOf(last.op, Val(After)))

\* C7 (as claimed): merging one entry of a novel identity into a list of n
\* entries gives n + 1 entries, the first n being the prior ones.
C7_NovelEntryAppended ==
  (/\ ListMerge(KeyedListOps)
   /\ last.arg # Nil
   /\ Len(Val(last.arg)) = 1
   /\ ~InSeq(KeyOf(last.op, Val(last.arg)[1]), KeysOf(last.op, Val(Before)))) =>
    /\ last.res = "ok"
    /\ Len(Val(After)) = Len(Val(Before)) + 1
    /\ SubSeq(Val(After), 1, Len(Val(Before))) = Val(Before)

\* C8 (as claimed): a merge into a list never removes or reorders: every
\* identity present before the call is at the same position after it.
C8_MergeKeepsPositions ==
  ListMerge(KeyedListOps \cup PlainListOps) =>
    /\ Len(Val(After)) >= Len(Val(Before))
    /\ \A k \in 1..Len(Val(Before)) :
         KeyOf(last.op, Val(After)[k]) = KeyOf(last.op, Val(Before)[k])

\* the field a map, list or nested-record setter owns holds content
Populated(op, v) ==
  CASE op \in MapOps -> v # Nil /\ Val(v) # EmptyMap
    [] op \in KeyedListOps \cup PlainListOps -> v # Nil /\ Val(v) # <<>>
    [] op \in {"WithSecurityContext"} -> v # Nil /\ Val(v) # ZeroSecurityContext
    [] op \in {"WithPodSecurityContext"} -> v # Nil /\ Val(v) # ZeroPodSecurityContext
    [] op \in {"WithLivenessProbe", "WithReadinessProbe", "WithStartupProbe"} ->
         v # Nil /\ Val(v) # ZeroProbe
    [] op = "WithAffinity" -> v # Nil /\ Val(v) # ZeroAffinity
    [] op = "WithResource" -> v # ZeroResources
    [] op = "WithContainer" -> v # ZeroContainer
    [] op = "WithPodTemplateSpec" -> v # ZeroPodTemplate
    [] op = "withIngressSpec" -> v # ZeroIngressSpec

\* C9 (as claimed): under OverwriteIfDefaultValue a map, list or nested-record
\* setter whose field is populated completes and leaves the field as it was.
C9_IfDefaultOnPopulated ==
  (/\ last.op \in MapOps \cup KeyedListOps \cup PlainListOps \cup NilableRecordOps
                  \cup {"WithAffinity"}
   /\ IsOverwriteIfDefaultValue(last.o)
   /\ Populated(last.op, Before)) =>
    /\ last.res = "ok"
    /\ After = Before

\* C10 (as claimed): a nested-record setter given a nil value completes and
\* leaves the target as it was, under every policy.
C10_NilIsNoOp ==
  (last.op \in NilableRecordOps /\ last.arg = Nil) =>
    /\ last.res = "ok"
    /\ Target = last.pre

\* the setter named op applied to target t with argument arg under options o
Setter(op, t, arg, o) ==
  CASE op = "WithImage" -> WithImage(t, arg, o)
    [] op = "WithImagePullPolicy" -> WithImagePullPolicy(t, arg, o)
    [] op = "WithEnv" -> WithEnv(t, arg, o)
    [] op = "WithEnvFrom" -> WithEnvFrom(t, arg, o)
    [] op = "WithPort" -> WithPort(t, arg, o)
    [] op = "WithVolumeMount" -> WithVolumeMount(t, arg, o)
    [] op = "WithResource" -> WithResource(t, arg, o)
    [] op = "WithSecurityContext" -> WithSecurityContext(t, arg, o)
    [] op = "WithLivenessProbe" -> WithLivenessProbe(t, arg, o)
    [] op = "WithReadinessProbe" -> WithReadinessProbe(t, arg, o)
    [] op = "WithStartupProbe" -> WithStartupProbe(t, arg, o)
    [] op = "WithContainer" -> WithContainer(t, arg, o)
    [] op = "WithPodTemplateSpec" -> WithPodTemplateSpec(t, arg, o)
    [] op = "WithLabels" -> WithLabels(t, arg, o)
    [] op = "WithAnnotations" -> WithAnnotations(t, arg, o)
    [] op = "WithImagePullSecrets" -> WithImagePullSecrets(t, arg, o)
    [] op = "WithTerminationGracePeriodSeconds" ->
         WithTerminationGracePeriodSeconds(t, arg, o)
    [] op = "WithTolerations" -> WithTolerations(t, arg, o)
    [] op = "WithNodeSelector" -> WithNodeSelector(t, arg, o)
    [] op = "WithInitContainers" -> WithInitContainers(t, arg, o)
    [] op = "WithContainers" -> WithContainers(t, arg, o)
    [] op = "WithVolumes" -> WithVolumes(t, arg, o)
    [] op = "WithAffinity" -> WithAffinity(t, arg, o)
    [] op = "WithPodSecurityContext" -> WithPodSecurityContext(t, arg, o)
    [] op = "withName" -> withName(t, arg, o)
    [] op = "withNamespace" -> withNamespace(t, arg, o)
    [] op = "withLabels" -> withLabels(t, arg, o)
    [] op = "withAnnotations" -> withAnnotations(t, arg, o)
    [] op = "withIngressSpec" -> withIngressSpec(t, arg, o)

\* the setters of a map, a list or a pointer-valued nested record
NilableFieldOps == MapOps \cup KeyedListOps \cup PlainListOps \cup PtrRecordOps \cup {"WithAffinity"}

\* C11: a map, list or pointer-valued nested-record setter called under Merge
\* on a nil field completes and leaves the target that the same call under
\* Overwrite (explicit, or with no option) leaves.
C11_MergeOnNilIsOverwrite ==
  (last.op \in NilableFieldOps /\ IsMerge(last.o) /\ Before = Nil) =>
    /\ last.res = "ok"
    /\ Target = Setter(last.op, last.pre, last.arg, <<Overwrite>>).t
    /\ Target = Setter(last.op, last.pre, last.arg, <<>>).t

C11_Witness ==
  /\ last.op = "WithNodeSelector"
  /\ IsMerge(last.o)
  /\ last.pre.NodeSelector = Nil
  /\ last.pre.Labels # Nil
  /\ last.arg = Ref(Map("2", "3"))
  /\ podTemplate.NodeSelector = Ref(Map("2", "3"))

\* the last call assigned the list or map it was given (Overwrite, or a nil field)
Assigned(ops) ==
  /\ last.op \in ops
  /\ last.res = "ok"
  /\ IsOverwrite(last.o) \/ Before = Nil

\* C12 (as claimed): a list setter on its assigning path leaves the entries of
\* the list it was given, in order, and a later change the caller makes to that
\* list does not change the target.
C12_ListAssignedByCopy ==
  /\ Assigned(KeyedListOps \cup PlainListOps) => SeqOf(After) = SeqOf(last.arg)
  /\ (last.op = "CallerMutates" /\ held.op \in ListSetters) => Target = last.pre

\* C13 (as claimed): a map setter on its assigning path leaves an independent
\* copy of the map it was given: the field equals the map, a later change the
\* caller makes to the map does not change the target, and a later Merge into
\* the field does not change the caller's map.
C13_MapAssignedByCopy ==
  /\ Assigned(MapOps) => After = last.arg
  /\ (last.op = "CallerMutates" /\ held.op \in MapSetters) => Target = last.pre
  /\ held.op \in MapSetters => held.val = held.given

\* the setters of one nested record, and the record with no field set
NestedOps ==
  PtrRecordOps \cup {"WithResource", "WithAffinity", "withIngressSpec"}

ZeroOf(op) ==
  CASE op = "WithResource" -> ZeroResources
    [] op = "WithSecurityContext" -> ZeroSecurityContext
    [] op \in {"WithLivenessProbe", "WithReadinessProbe", "WithStartupProbe"} -> ZeroProbe
    [] op = "WithPodSecurityContext" -> ZeroPodSecurityContext
    [] op = "WithAffinity" -> ZeroAffinity
    [] op = "withIngressSpec" -> ZeroIngressSpec

\* the record a nested-record field holds, and the one the last call was given
RecordIn(op, v) == IF op \in {"WithResource", "withIngressSpec"} THEN v ELSE Val(v)

GivenRecord == IF last.op = "WithAffinity" THEN last.arg ELSE Val(last.arg)

\* the last call merged a record into a field that held one
NestedMerge ==
  /\ last.op \in NestedOps
  /\ IsMerge(last.o)
  /\ Before # Nil
  /\ last.arg # Nil

\* C14: a nested-record setter under Merge, given a record N for a field that
\* holds a record D, completes and leaves a record in which every field set
\* on N has N's value and every other field has D's value.
C14_NestedMergeKeepsBoth ==
  NestedMerge =>
    /\ last.res = "ok"
    /\ \A f \in DOMAIN ZeroOf(last.op) :
         RecordIn(last.op, After)[f] =
           (IF GivenRecord[f] # ZeroOf(last.op)[f] THEN GivenRecord[f]
            ELSE RecordIn(last.op, Before)[f])

C14_Witness ==
  /\ NestedMerge
  /\ last.op = "WithSecurityContext"
  /\ Val(Before) = [RunAsUser |-> Ref(1000), RunAsNonRoot |-> Nil]
  /\ GivenRecord = [RunAsUser |-> Nil, RunAsNonRoot |-> Ref(TRUE)]
  /\ Val(After) = [RunAsUser |-> Ref(1000), RunAsNonRoot |-> Ref(TRUE)]

\* the list setters a whole-object setter calls again after MergeK8s
ReMerged(op) ==
  IF op = "WithContainer" THEN {"WithEnv", "WithEnvFrom", "WithPort", "WithVolumeMount"}
  ELSE {"WithContainers", "WithInitContainers", "WithImagePullSecrets", "WithTolerations",
        "WithVolumes"}

\* C15 (as claimed): after a whole-object setter under Merge, every list field
\* it merges again equals what that field's list setter under Merge leaves when
\* applied to the target as it was before the call with the list of the
\* instance passed.
C15_WholeObjectReMerge ==
  (/\ last.op \in {"WithContainer", "WithPodTemplateSpec"}
   /\ IsMerge(last.o)
   /\ last.arg # Nil
   /\ last.res = "ok") =>
    \A f \in ReMerged(last.op) :
      FieldOf(f, Target) =
        FieldOf(f, Setter(f, last.pre, FieldOf(f, Val(last.arg)), <<Merge>>).t)

\* ------------------------------------------------ the deferred ingress builder
PublicOps == {"WithIngressSpec", "WithLabels", "WithAnnotations", "WithName", "WithNamespace"}

\* the private setter a public setter records
Recorded(op) ==
  CASE op = "WithIngressSpec" -> "withIngressSpec"
    [] op = "WithLabels" -> "withLabels"
    [] op = "WithAnnotations" -> "withAnnotations"
    [] op = "WithName" -> "withName"
    [] op = "WithNamespace" -> "withNamespace"

\* the last call was a public setter of the deferred ingress builder
PublicSetterCalled == last.b = "ingress" /\ last.op \in PublicOps

\* C16: a public setter call of the deferred ingress builder appends exactly
\* one entry, holding the private setter's name, the argument and the options,
\* to the end of the operation log and leaves the target as it was; the target
\* is not changed by any call but Build
C16_SetterOnlyRecords ==
  /\ PublicSetterCalled =>
       /\ Len(operations) = Len(last.log) + 1
       /\ SubSeq(operations, 1, Len(last.log)) = last.log
       /\ operations[Len(operations)] =
            [Name |-> Recorded(last.op), Args |-> <<last.arg, last.o>>]
       /\ i = last.pre
  /\ (last.b = "ingress" /\ last.op # "Build") => i = last.pre

\* a second recorded call: the log held one entry of another setter before it
C16_Witness ==
  /\ PublicSetterCalled
  /\ last.op = "WithName"
  /\ last.arg = "b"
  /\ Len(last.log) = 1
  /\ last.log[1].Name = "withLabels"
  /\ Len(operations) = 2
  /\ operations[2].Name = "withName"
  /\ i = ZeroIngress

\* the immediate setters named by the entries of log ops, called in order on
\* target t, each with its recorded argument and options, up to the first that
\* does not return normally
RECURSIVE Replay(_, _)
Replay(t, ops) ==
  IF ops = <<>> THEN Ok(t)
  ELSE LET r == Setter(Head(ops).Name, t, Head(ops).Args[1], Head(ops).Args[2])
       IN IF r.res # "ok" THEN r ELSE Replay(r.t, Tail(ops))

\* C17: Build applies the recorded operations in recorded order with their
\* recorded arguments: when the immediate setters, called in that order, all
\* return normally, Build returns no error and the target they produce
C17_BuildAppliesInOrder ==
  (last.op = "Build" /\ Replay(last.pre, last.log).res = "ok") =>
    /\ last.res = "ok"
    /\ built.err = ""
    /\ i = Replay(last.pre, last.log).t
    /\ built.target = Ref(i)

\* C18: a Build that returns without error leaves the log empty and has applied
\* every recorded operation once; a Build on an empty log applies nothing and
\* returns the target as it is; and the builder is reusable: once a Build has
\* returned without error, a later Build of operations the immediate setters
\* accept returns without error as well
C18_BuildDrainsAndReusable ==
  /\ (last.op = "Build" /\ last.res = "ok") =>
       /\ operations = <<>>
       /\ i = Replay(last.pre, last.log).t
  /\ (last.op = "Build" /\ last.log = <<>>) =>
       /\ last.res = "ok"
       /\ i = last.pre
       /\ built.target = Ref(i)
  /\ (last.op = "Build" /\ built.n >= 1 /\ Replay(last.pre, last.log).res = "ok") =>
       last.res = "ok"

\* the positions of log ops whose name is that of no method Build can call
Unresolved(ops) == {k \in 1..Len(ops) : ops[k].Name # "" /\ MethodByName(ops[k].Name) = "invalid"}

\* the first position of a non-empty set of positions
First(S) == CHOOSE k \in S : \A j \in S : k <= j

\* C19: when the log holds an operation whose name resolves to no method, and
\* the operations before it are accepted, Build returns an error naming that
\* operation and a nil target, applies no later operation, and leaves the
\* operations before it applied
C19_UnresolvedNameIsReported ==
  (/\ last.op = "Build"
   /\ Unresolved(last.log) # {}
   /\ Replay(last.pre, SubSeq(last.log, 1, First(Unresolved(last.log)) - 1)).res = "ok") =>
    /\ last.res = "error"
    /\ built.err = last.log[First(Unresolved(last.log))].Name
    /\ built.target = Nil
    /\ i = Replay(last.pre, SubSeq(last.log, 1, First(Unresolved(last.log)) - 1)).t

\* ------------------------------------------------------------ MergeSliceOrDie
\* the sources of a call laid end to end
RECURSIVE Flatten(_)
Flatten(srcs) == IF srcs = <<>> THEN <<>> ELSE Head(srcs) \o Flatten(Tail(srcs))

\* the positions of all whose key value is that of no item of prior and of no
\* earlier item of all
Novel(prior, all, key) ==
  {k \in 1..Len(all) :
     /\ \A j \in 1..Len(prior) : Get(prior[j], key) # Get(all[k], key)
     /\ \A j \in 1..(k - 1) : Get(all[j], key) # Get(all[k], key)}

\* the m-th smallest position of S
Nth(S, m) == CHOOSE k \in S : Cardinality({j \in S : j <= k}) = m

MergeSliceCalled == last.op = "MergeSliceOrDie" /\ last.pre # Nil

\* C20: after MergeSliceOrDie on a non-nil dst, dst is its prior contents, in
\* the same order, followed by the source items, in the order they are met
\* across the sources, whose key value is that of no prior item and of no item
\* met before them: an item whose key repeats is appended once
C20_MergeSliceAppendsNovel ==
  MergeSliceCalled =>
    LET prior == Val(last.pre)
        all == Flatten(last.arg)
        novel == Novel(prior, all, last.o)
        now == Val(dstAny)
    IN /\ last.res = "ok"
       /\ Len(now) = Len(prior) + Cardinality(novel)
       /\ SubSeq(now, 1, Len(prior)) = prior
       /\ \A m \in 1..Cardinality(novel) : now[Len(prior) + m] = all[Nth(novel, m)]

\* two sources on a dst of one item: a key repeats within the first source, a
\* key of the second source is in dst already, and two items are appended
C20_Witness ==
  /\ MergeSliceCalled
  /\ last.o = "ConfigMapRef.LocalObjectReference.Name"
  /\ Val(last.pre) = <<[Name |-> "test2", Prefix |-> ""]>>
  /\ last.arg = << <<[Name |-> "test1", Prefix |-> ""], [Name |-> "test1", Prefix |-> "p"]>>,
                   <<[Name |-> "test2", Prefix |-> ""], [Name |-> "test3", Prefix |-> ""]>> >>
  /\ Val(dstAny) = <<[Name |-> "test2", Prefix |-> ""], [Name |-> "test1", Prefix |-> ""],
                     [Name |-> "test3", Prefix |-> ""]>>

\* --------------------------------------------------------------- MergeK8s
MergeK8sCalled == last.op = "MergeK8s"

\* dst is nil or not a pointer, or src is nil
NoValidTarget(dst, src) == dst = Nil \/ Handle(dst).kind = "value" \/ src = Nil

\* C21: MergeK8s called with a dst that is nil or not a pointer, or with a nil
\* src, returns an error, without a panic, and leaves dst as it was
C21_InvalidTargetIsAnError ==
  (MergeK8sCalled /\ NoValidTarget(last.pre, last.arg[1])) =>
    /\ last.res = "error"
    /\ dstAny = last.pre

\* -------------------------------------------- the deferred builder's failures
\* C22: when one of the immediate setters named by the log, called in recorded
\* order, returns an error, Build returns an error to its caller
C22_SetterErrorIsReturned ==
  (last.op = "Build" /\ Replay(last.pre, last.log).res = "error") =>
    /\ last.res = "error"
    /\ built.err # ""
    /\ built.target = Nil

\* ------------------------------------------------------------- list setters
\* C23: a list setter called under Merge that does not return normally leaves
\* the list it owns as it was before the call
C23_FailedMergeLeavesList ==
  (/\ last.op \in KeyedListOps \cup PlainListOps
   /\ IsMerge(last.o)
   /\ last.res # "ok") => After = Before

\* the entry with no field set, of the list that setter op owns
ZeroEntry(op) ==
  CASE op = "WithPort" -> [ContainerPort |-> 0, Name |-> ""]
    [] op = "WithVolumeMount" -> [Name |-> "", MountPath |-> "", SubPath |-> ""]
    [] op = "WithVolumes" -> [Name |-> "", EmptyDir |-> Nil, ConfigMap |-> Nil]
    [] op = "WithImagePullSecrets" -> [Name |-> ""]
    [] op \in {"WithContainers", "WithInitContainers"} -> ZeroContainer

\* the positions of list whose entry has the identity of entry e
Matching(op, list, e) == {k \in 1..Len(list) : KeyOf(op, list[k]) = KeyOf(op, e)}

\* C24: a merge into an identity-keyed list leaves, in the slot that one new
\* entry matches, every field that is set on the destination entry and not set
\* on the new entry
C24_MatchedSlotIsDeepMerged ==
  (ListMerge(KeyedListOps) /\ last.res = "ok") =>
    LET D == Val(Before)
        N == SeqOf(last.arg)
        R == Val(After)
        zero == ZeroEntry(last.op)
    IN \A k \in 1..Len(D), n \in 1..Len(N) :
         (/\ Matching(last.op, D, N[n]) # {}
          /\ k = FirstOf(Matching(last.op, D, N[n]))
          /\ Matching(last.op, N, N[n]) = {n}) =>
           \A f \in DOMAIN zero :
             (D[k][f] # zero[f] /\ N[n][f] = zero[f]) => R[k][f] = D[k][f]

\* the positions of new whose entry equals no entry of prior and no earlier
\* entry of new
NovelEntries(prior, new) ==
  {k \in 1..Len(new) : ~InSeq(new[k], prior) /\ \A j \in 1..(k - 1) : new[j] # new[k]}

\* C25: a merge into a non-nil list of plain values keeps the entries it holds
\* as they are and appends, in the new list's order, the new entries equal to
\* no entry it holds at that moment: it gains no second copy of an entry
C25_PlainListMerge ==
  ListMerge(PlainListOps) =>
    LET D == Val(Before)
        N == SeqOf(last.arg)
        R == Val(After)
        novel == NovelEntries(D, N)
    IN /\ last.res = "ok"
       /\ Len(R) = Len(D) + Cardinality(novel)
       /\ SubSeq(R, 1, Len(D)) = D
       /\ \A m \in 1..Cardinality(novel) : R[Len(D) + m] = N[Nth(novel, m)]
       /\ \A k \in (Len(D) + 1)..Len(R) : \A j \in 1..(k - 1) : R[j] # R[k]

\* an entry the list holds is skipped and another one is appended
C25_Witness ==
  /\ ListMerge(PlainListOps)
  /\ last.op = "WithEnv"
  /\ Len(Val(Before)) = 1
  /\ Len(SeqOf(last.arg)) = 2
  /\ SeqOf(last.arg)[1] = Val(Before)[1]
  /\ SeqOf(last.arg)[2] # Val(Before)[1]
  /\ Val(After) = <<Val(Before)[1], SeqOf(last.arg)[2]>>

\* ------------------------------------------------------ one field per setter
\* the setters of one field
FieldOps == ScalarOps \cup MapOps \cup KeyedListOps \cup PlainListOps \cup PtrRecordOps
              \cup {"WithResource", "WithAffinity", "withIngressSpec"}

\* the name of the field of the target that setter op owns
FieldName(op) ==
  CASE op = "WithImage" -> "Image"
    [] op = "WithImagePullPolicy" -> "ImagePullPolicy"
    [] op = "WithEnv" -> "Env"
    [] op = "WithEnvFrom" -> "EnvFrom"
    [] op = "WithPort" -> "Ports"
    [] op = "WithVolumeMount" -> "VolumeMounts"
    [] op = "WithResource" -> "Resources"
    [] op \in {"WithSecurityContext", "WithPodSecurityContext"} -> "SecurityContext"
    [] op = "WithLivenessProbe" -> "LivenessProbe"
    [] op = "WithReadinessProbe" -> "ReadinessProbe"
    [] op = "WithStartupProbe" -> "StartupProbe"
    [] op \in {"WithLabels", "withLabels"} -> "Labels"
    [] op \in {"WithAnnotations", "withAnnotations"} -> "Annotations"
    [] op = "WithImagePullSecrets" -> "ImagePullSecrets"
    [] op = "WithTerminationGracePeriodSeconds" -> "TerminationGracePeriodSeconds"
    [] op = "WithTolerations" -> "Tolerations"
    [] op = "WithNodeSelector" -> "NodeSelector"
    [] op = "WithInitContainers" -> "InitContainers"
    [] op = "WithContainers" -> "Containers"
    [] op = "WithVolumes" -> "Volumes"
    [] op = "WithAffinity" -> "Affinity"
    [] op = "withName" -> "Name"
    [] op = "withNamespace" -> "Namespace"
    [] op = "withIngressSpec" -> "Spec"

\* the target of a new builder b
ZeroTarget(b) ==
  CASE b = "container" -> ZeroContainer
    [] b = "podTemplate" -> ZeroPodTemplate
    [] b = "ingress" -> ZeroIngress

\* the target before the last call with every field but the called setter's
\* as in a new builder
OwnFieldOnly == [ZeroTarget(last.b) EXCEPT ![FieldName(last.op)] = Before]

\* C26: a setter of one field leaves every other field of the target as it
\* was, and what it does to its field is what it does when every other field
\* is as in a new builder
C26_SetterTouchesOwnFieldOnly ==
  (last.b \in {"container", "podTemplate", "ingress"} /\ last.op \in FieldOps) =>
    LET alone == Setter(last.op, OwnFieldOnly, last.arg, last.o)
    IN /\ Target = [last.pre EXCEPT ![FieldName(last.op)] = After]
       /\ alone.res = last.res
       /\ FieldOf(last.op, alone.t) = After

\* C27: a Build that does not return normally leaves the operation log as it
\* was before the call: no entry is removed, and a following Build meets the
\* same operations from the first one on
C27_FailedBuildKeepsLog ==
  (last.op = "Build" /\ last.res # "ok") => operations = last.log

\* a Build of two recorded operations has failed
C27_Witness ==
  /\ last.op = "Build"
  /\ last.res # "ok"
  /\ Len(last.log) = 2
  /\ last.log[1].Name = "withName"
  /\ operations = last.log
====
